---- MODULE Spec2Model ----
(***************************************************************************)
(* A model of stt-proxy (src/src/index.ts): provider selection, dispatch  *)
(* of a transcribe call to the whisper.cpp or the Cloudflare adapter, the *)
(* temporary input file of a buffer call and the cached engine handle.    *)
(*                                                                         *)
(* One action models the code a call runs between two suspension points   *)
(* (await): JavaScript runs that code without interleaving.               *)
(***************************************************************************)
EXTENDS Naturals, Integers, Sequences, FiniteSets, TLC

VARIABLES env, fs, contents, whisperInstance, currentModelPath, handles, call,
          proc, ref, probe

vars == <<env, fs, contents, whisperInstance, currentModelPath, handles, call,
          proc, ref, probe>>

(***************************************************************************)
(* Strings.  A string whose characters matter (a provider name, a         *)
(* transcription) is the sequence of its character codes; a string used   *)
(* only as a whole (a path, a credential) is a TLA+ string.               *)
(***************************************************************************)

\* process.env[k] of a variable that is not set (JavaScript's undefined).
UNDEFINED == "<undefined>"

\* undefined, for a string kept as character codes.
UndefinedStr == << 0 - 1 >>

\* "whisper.cpp"
WhisperCppName == <<119, 104, 105, 115, 112, 101, 114, 46, 99, 112, 112>>

\* "cloudflare"
CloudflareName == <<99, 108, 111, 117, 100, 102, 108, 97, 114, 101>>

\* "unknown", a name of no provider
UnknownName == <<117, 110, 107, 110, 111, 119, 110>>

\* String.prototype.toLowerCase on the ASCII range: A-Z become a-z.
ToLowerCase(s) ==
  [i \in 1..Len(s) |-> IF s[i] \in 65..90 THEN s[i] + 32 ELSE s[i]]

\* The upper-case variant of s at the positions in mask (an input generator).
UpperAt(s, mask) ==
  [i \in 1..Len(s) |-> IF i \in mask /\ s[i] \in 97..122 THEN s[i] - 32 ELSE s[i]]

\* JavaScript truthiness of an optional string.
Truthy(v) == v # UNDEFINED /\ v # ""

\* JavaScript truthiness of an optional string kept as character codes.
TruthyStr(s) == s # UndefinedStr /\ s # << >>

(***************************************************************************)
(* Inputs: the values the environment, the file system and the callers    *)
(* are drawn from.                                                         *)
(***************************************************************************)

Calls == {"c1", "c2"}

\* The one caller of the sequential specification.
SeqCalls == {"c1"}

ModelPaths == {"m1.bin", "m2.bin"}

AudioPath == "audio.wav"

\* generateTempPath(prefix, ext): a name of the call's own (timestamp + random).
TempInputPath(c) == "stt_input_" \o c

\* generateTempPath('whisper', 'pcm') of the call's conversion.
TempPcmPath(c) == "whisper_" \o c

\* What ffmpeg and the read of its output do: ffmpeg writes the whole file,
\* fails leaving a partial file or fails leaving none; the read succeeds or
\* fails.
PcmOutcomes ==
  {[ffmpeg |-> "done", read |-> "done", answer |-> "ffmpeg done"],
   [ffmpeg |-> "done", read |-> "failed", answer |-> "read failed"],
   [ffmpeg |-> "partial", read |-> "none", answer |-> "ffmpeg partial"],
   [ffmpeg |-> "failed", read |-> "none", answer |-> "ffmpeg failed"]}

\* PROVIDER: not set, empty, no provider's name, and the two names in lower
\* case and in another case ("WHISPER.CPP", "ClOuDfLaRe").
ProviderValues ==
  {UndefinedStr, << >>, UnknownName,
   WhisperCppName, UpperAt(WhisperCppName, 1..Len(WhisperCppName)),
   CloudflareName, UpperAt(CloudflareName, {1, 3, 5, 7, 9})}

SttProviderValues == {UndefinedStr, WhisperCppName, CloudflareName}

ModelPathValues == {UNDEFINED, ""} \cup ModelPaths

AccountIdValues == {"", "acct"}

AuthKeyValues == {UNDEFINED, "key"}

EnvVars ==
  [PROVIDER : ProviderValues,
   STT_PROVIDER : SttProviderValues,
   WHISPER_CPP_MODEL_PATH : ModelPathValues,
   CLOUDFLARE_ACCOUNT_ID : AccountIdValues,
   CLOUDFLARE_AUTH_KEY : AuthKeyValues]

\* The files the host may create or delete: a model file and the audio file.
HostFiles == {"m1.bin", AudioPath}

\* The bytes of an audio file or buffer: "RIF", "Og".
AudioBytes == {<<82, 73, 70>>, <<79, 103>>}

\* The bytes of the audio file the host creates.
HostBytes == <<82, 73, 70>>

\* The contents of a file that does not exist.
NoBytes == << 0 - 1 >>

\* The files whose bytes matter: the audio file and the calls' temporary files.
AudioFiles == {AudioPath} \cup {TempInputPath(c) : c \in Calls}

\* A key that an object does not have.
ABSENT == "<absent>"

\* TranscribeOptions: language is a string or undefined, translate is a
\* boolean ("true", "false") or undefined.
NoOptions == [language |-> UNDEFINED, translate |-> UNDEFINED]

OptionValues ==
  {NoOptions,
   [language |-> "", translate |-> "false"],
   [language |-> "en", translate |-> "true"]}

PathAudio(path) == [kind |-> "path", path |-> path, bytes |-> NoBytes]

BufferAudio(bytes) == [kind |-> "buffer", path |-> "", bytes |-> bytes]

\* The arguments of transcribe: the audio file or a buffer, no options.
AudioInputs ==
  {[audio |-> PathAudio(AudioPath), options |-> NoOptions],
   [audio |-> BufferAudio(HostBytes), options |-> NoOptions]}

\* The arguments of transcribe: the audio file or a buffer, with options.
AudioInputsWithOptions ==
  {[audio |-> a, options |-> o] :
     a \in {PathAudio(AudioPath)} \cup {BufferAudio(b) : b \in AudioBytes},
     o \in OptionValues}

(***************************************************************************)
(* Outcomes.  A thrown Error is its message: kind is the fixed wording,   *)
(* mentions the names and values the message embeds, value an embedded    *)
(* string kept as character codes.  A returned { text } has kind "ok".    *)
(***************************************************************************)

Outcome(kind, mentions, value) == [kind |-> kind, mentions |-> mentions, value |-> value]

NoOutcome == Outcome("none", {}, << >>)

Ok(text) == Outcome("ok", {}, text)

ErrProviderNotConfiguredWhisper ==
  Outcome("PROVIDER is set but provider is not configured",
          {"PROVIDER", "whisper.cpp", "WHISPER_CPP_MODEL_PATH"}, << >>)

ErrProviderNotConfiguredCloudflare ==
  Outcome("PROVIDER is set but provider is not configured",
          {"PROVIDER", "cloudflare", "CLOUDFLARE_ACCOUNT_ID", "CLOUDFLARE_AUTH_KEY"}, << >>)

ErrUnknownProvider(name) ==
  Outcome("Unknown provider", {"whisper.cpp", "cloudflare"}, name)

\* The message without the second Cloudflare setting.
ErrNoProvider_Incomplete ==
  Outcome("No STT provider configured",
          {"WHISPER_CPP_MODEL_PATH", "CLOUDFLARE_ACCOUNT_ID"}, << >>)

ErrNoProvider ==
  Outcome("No STT provider configured",
          {"WHISPER_CPP_MODEL_PATH", "CLOUDFLARE_ACCOUNT_ID", "CLOUDFLARE_AUTH_KEY"}, << >>)

ErrAudioNotFound(path) == Outcome("Audio file not found", {path}, << >>)

ErrModelPathNotSet ==
  Outcome("WHISPER_CPP_MODEL_PATH environment variable is not set",
          {"WHISPER_CPP_MODEL_PATH"}, << >>)

ErrModelNotFound(path) == Outcome("Whisper model not found at path", {path}, << >>)

ErrCredentials ==
  Outcome("Cloudflare credentials not configured",
          {"CLOUDFLARE_ACCOUNT_ID", "CLOUDFLARE_AUTH_KEY"}, << >>)

ErrCloudflareApi(status, statusText, body) ==
  Outcome("Cloudflare API error", {status, statusText, body}, << >>)

ErrCloudflareFailed(message) ==
  Outcome("Cloudflare transcription failed", {message}, << >>)

\* An exception of a collaborator (ffmpeg, smart-whisper, fetch), passed on as is.
Fault(what) == Outcome(what, {}, << >>)

(***************************************************************************)
(* Shared utilities                                                        *)
(***************************************************************************)

\* /[\x00-\x1F\x7F]/
IsControl(ch) == ch \in 0..31 \/ ch = 127

\* The characters String.prototype.trim removes (WhiteSpace and LineTerminator).
IsWhiteSpace(ch) ==
  ch \in {9, 10, 11, 12, 13, 32, 160, 5760, 8232, 8233, 8239, 8287, 12288, 65279}
    \/ ch \in 8192..8202

RECURSIVE TrimStart(_)
TrimStart(s) ==
  IF s # << >> /\ IsWhiteSpace(Head(s)) THEN TrimStart(Tail(s)) ELSE s

RECURSIVE TrimEnd(_)
TrimEnd(s) ==
  IF s # << >> /\ IsWhiteSpace(s[Len(s)]) THEN TrimEnd(SubSeq(s, 1, Len(s) - 1)) ELSE s

Trim(s) == TrimEnd(TrimStart(s))

\* cleanTranscription without \x7F in the character class.
cleanTranscription_KeepsDel(text) == Trim(SelectSeq(text, LAMBDA ch : ch \notin 0..31))

\* cleanTranscription trimming before it removes the control characters.
cleanTranscription_TrimFirst(text) == SelectSeq(Trim(text), LAMBDA ch : ~IsControl(ch))

cleanTranscription(text) == Trim(SelectSeq(text, LAMBDA ch : ~IsControl(ch)))

\* Array.prototype.join(' ')
RECURSIVE JoinSpace(_)
JoinSpace(texts) ==
  IF texts = << >> THEN << >>
  ELSE IF Len(texts) = 1 THEN texts[1]
  ELSE texts[1] \o <<32>> \o JoinSpace(Tail(texts))

\* resultsToText joining the segments last to first.
resultsToText_LastFirst(results) ==
  JoinSpace([i \in 1..Len(results) |-> results[Len(results) + 1 - i].text])

resultsToText(results) == JoinSpace([i \in 1..Len(results) |-> results[i].text])

(***************************************************************************)
(* Provider configuration and selection                                    *)
(***************************************************************************)

\* isWhisperConfigured without the check that the model file exists.
isWhisperConfigured_PathOnly(e, f) == Truthy(e.WHISPER_CPP_MODEL_PATH)

\* isWhisperConfigured counting a model whose engine handle is cached as
\* configured, without looking at the file again.
isWhisperConfigured_Cached(e, f) ==
  LET modelPath == e.WHISPER_CPP_MODEL_PATH
  IN  /\ Truthy(modelPath)
      /\ \/ modelPath \in f
         \/ (whisperInstance # 0 /\ currentModelPath = modelPath)

isWhisperConfigured(e, f) ==
  LET modelPath == e.WHISPER_CPP_MODEL_PATH
  IN  Truthy(modelPath) /\ modelPath \in f

isCloudflareConfigured(e) ==
  Truthy(e.CLOUDFLARE_ACCOUNT_ID) /\ Truthy(e.CLOUDFLARE_AUTH_KEY)

\* The override as set, without toLowerCase().
explicitProviderOf_CaseSensitive(e) == e.PROVIDER

\* process.env['PROVIDER']?.toLowerCase()
explicitProviderOf(e) ==
  IF e.PROVIDER = UndefinedStr THEN UndefinedStr ELSE ToLowerCase(e.PROVIDER)

Selected(provider) == [ok |-> TRUE, provider |-> provider, error |-> NoOutcome]

Thrown(error) == [ok |-> FALSE, provider |-> "none", error |-> error]

\* selectProvider with the auto-detection priority reversed.
selectProvider_CloudflareFirst(e, f) ==
  LET explicitProvider == explicitProviderOf(e)
  IN  IF TruthyStr(explicitProvider)
      THEN CASE explicitProvider = WhisperCppName ->
                  IF ~isWhisperConfigured(e, f)
                  THEN Thrown(ErrProviderNotConfiguredWhisper)
                  ELSE Selected("whisper.cpp")
             [] explicitProvider = CloudflareName ->
                  IF ~isCloudflareConfigured(e)
                  THEN Thrown(ErrProviderNotConfiguredCloudflare)
                  ELSE Selected("cloudflare")
             [] OTHER -> Thrown(ErrUnknownProvider(explicitProvider))
      ELSE IF isCloudflareConfigured(e) THEN Selected("cloudflare")
      ELSE IF isWhisperConfigured(e, f) THEN Selected("whisper.cpp")
      ELSE Thrown(ErrNoProvider)

\* selectProvider falling through to auto-detection when the provider the
\* override names is not configured.
selectProvider_FallThrough(e, f) ==
  LET explicitProvider == explicitProviderOf(e)
  IN  IF explicitProvider = WhisperCppName /\ isWhisperConfigured(e, f)
      THEN Selected("whisper.cpp")
      ELSE IF explicitProvider = CloudflareName /\ isCloudflareConfigured(e)
      THEN Selected("cloudflare")
      ELSE IF TruthyStr(explicitProvider)
              /\ explicitProvider \notin {WhisperCppName, CloudflareName}
      THEN Thrown(ErrUnknownProvider(explicitProvider))
      ELSE IF isWhisperConfigured(e, f) THEN Selected("whisper.cpp")
      ELSE IF isCloudflareConfigured(e) THEN Selected("cloudflare")
      ELSE Thrown(ErrNoProvider)

\* selectProvider ignoring an override that names no provider.
selectProvider_UnknownIgnored(e, f) ==
  LET explicitProvider == explicitProviderOf(e)
  IN  IF explicitProvider = WhisperCppName
      THEN IF ~isWhisperConfigured(e, f)
           THEN Thrown(ErrProviderNotConfiguredWhisper)
           ELSE Selected("whisper.cpp")
      ELSE IF explicitProvider = CloudflareName
      THEN IF ~isCloudflareConfigured(e)
           THEN Thrown(ErrProviderNotConfiguredCloudflare)
           ELSE Selected("cloudflare")
      ELSE IF isWhisperConfigured(e, f) THEN Selected("whisper.cpp")
      ELSE IF isCloudflareConfigured(e) THEN Selected("cloudflare")
      ELSE Thrown(ErrNoProvider)

selectProvider(e, f) ==
  LET explicitProvider == explicitProviderOf(e)
  IN  IF TruthyStr(explicitProvider)
      THEN CASE explicitProvider = WhisperCppName ->
                  IF ~isWhisperConfigured(e, f)
                  THEN Thrown(ErrProviderNotConfiguredWhisper)
                  ELSE Selected("whisper.cpp")
             [] explicitProvider = CloudflareName ->
                  IF ~isCloudflareConfigured(e)
                  THEN Thrown(ErrProviderNotConfiguredCloudflare)
                  ELSE Selected("cloudflare")
             [] OTHER -> Thrown(ErrUnknownProvider(explicitProvider))
      ELSE IF isWhisperConfigured(e, f) THEN Selected("whisper.cpp")
      ELSE IF isCloudflareConfigured(e) THEN Selected("cloudflare")
      ELSE Thrown(ErrNoProvider)

(***************************************************************************)
(* The collaborators' answers (inputs of the model)                        *)
(***************************************************************************)

\* "Hi", " Hi\n" and the empty text
ResultTexts == {<<72, 105>>, <<32, 72, 105, 10>>, << >>}

\* What task.result resolves to, the engine's segments in order: none,
\* "Hello," "world!", " H\ni " and "a" "" "b".
EngineResults ==
  {<< >>,
   <<[text |-> <<72, 101, 108, 108, 111, 44>>],
     [text |-> <<119, 111, 114, 108, 100, 33>>]>>,
   <<[text |-> <<32, 72, 10, 105, 32>>]>>,
   <<[text |-> <<97>>], [text |-> << >>], [text |-> <<98>>]>>}

\* A CloudflareResponse body: result is absent (has = FALSE) or { text }.
CloudflareData ==
  {[success |-> TRUE, result |-> [has |-> TRUE, text |-> t], errors |-> << >>] :
     t \in ResultTexts}
    \cup {[success |-> TRUE, result |-> [has |-> FALSE, text |-> << >>], errors |-> << >>],
          [success |-> FALSE, result |-> [has |-> FALSE, text |-> << >>],
           errors |-> <<"Invalid audio format", "second">>],
          [success |-> FALSE, result |-> [has |-> FALSE, text |-> << >>],
           errors |-> <<"">>],
          [success |-> FALSE, result |-> [has |-> TRUE, text |-> <<72, 105>>],
           errors |-> << >>]}

NoData == [success |-> FALSE, result |-> [has |-> FALSE, text |-> << >>], errors |-> << >>]

NoResponse ==
  [ok |-> FALSE, status |-> "", statusText |-> "", body |-> "", isJson |-> FALSE,
   data |-> NoData]

\* A response with a success status and the JSON body d.
JsonResponse(d) ==
  [ok |-> TRUE, status |-> "200", statusText |-> "OK", body |-> "",
   isJson |-> TRUE, data |-> d]

\* What fetch resolves to: an error status with a text body, a success status
\* with a body that is not JSON, a success status with a JSON body.
Responses ==
  {[ok |-> FALSE, status |-> "401", statusText |-> "Unauthorized",
    body |-> "denied", isJson |-> FALSE, data |-> NoData],
   [ok |-> FALSE, status |-> "500", statusText |-> "Internal Server Error",
    body |-> "", isJson |-> FALSE, data |-> NoData],
   [ok |-> TRUE, status |-> "200", statusText |-> "OK",
    body |-> "<html>", isJson |-> FALSE, data |-> NoData]}
    \cup {JsonResponse(d) : d \in CloudflareData}

(***************************************************************************)
(* What an adapter hands to its collaborator                               *)
(***************************************************************************)

\* Buffer.prototype.toString('base64'): the character of a 6-bit value.
Base64Char(v) ==
  IF v < 26 THEN 65 + v
  ELSE IF v < 52 THEN 97 + (v - 26)
  ELSE IF v < 62 THEN 48 + (v - 52)
  ELSE IF v = 62 THEN 43 ELSE 47

RECURSIVE Base64(_)
Base64(b) ==
  IF b = << >> THEN << >>
  ELSE IF Len(b) = 1
  THEN <<Base64Char(b[1] \div 4), Base64Char((b[1] % 4) * 16), 61, 61>>
  ELSE IF Len(b) = 2
  THEN <<Base64Char(b[1] \div 4), Base64Char((b[1] % 4) * 16 + (b[2] \div 16)),
         Base64Char((b[2] % 16) * 4), 61>>
  ELSE <<Base64Char(b[1] \div 4), Base64Char((b[1] % 4) * 16 + (b[2] \div 16)),
         Base64Char((b[2] % 16) * 4 + (b[3] \div 64)), Base64Char(b[3] % 64)>>
         \o Base64(SubSeq(b, 4, Len(b)))

NoRequest ==
  [to |-> "none", method |-> ABSENT, account |-> "", bearer |-> "", encoding |-> "",
   audio |-> << >>,
   format |-> ABSENT, task |-> ABSENT, vad_filter |-> ABSENT,
   language |-> ABSENT, translate |-> ABSENT]

\* transcribeParams with the options that are truthy only: an empty language
\* and translate=false are left out.
EngineRequest_TruthyOnly(bytes, options) ==
  [NoRequest EXCEPT
     !.to = "engine", !.encoding = "f32le 16000 Hz mono", !.audio = bytes,
     !.format = "simple",
     !.language = IF Truthy(options.language) THEN options.language ELSE ABSENT,
     !.translate = IF options.translate = "true" THEN options.translate ELSE ABSENT]

\* whisper.transcribe(pcmData, transcribeParams): pcmData are the samples
\* ffmpeg decoded from the bytes of the file (16 kHz, mono, f32le).
EngineRequest(bytes, options) ==
  [NoRequest EXCEPT
     !.to = "engine", !.encoding = "f32le 16000 Hz mono", !.audio = bytes,
     !.format = "simple",
     !.language = IF options.language # UNDEFINED THEN options.language ELSE ABSENT,
     !.translate = IF options.translate # UNDEFINED THEN options.translate ELSE ABSENT]

\* The request body with task 'translate' whenever options.translate is given.
CloudflareRequest_TranslateWhenSet(accountId, authKey, bytes, options) ==
  [NoRequest EXCEPT
     !.to = "cloudflare", !.method = "POST", !.account = accountId, !.bearer = authKey,
     !.encoding = "base64", !.audio = Base64(bytes),
     !.task = IF options.translate # UNDEFINED THEN "translate" ELSE "transcribe",
     !.vad_filter = "true",
     !.language = IF Truthy(options.language) THEN options.language ELSE ABSENT]

\* fetch(url, { method: 'POST', headers, body }) of transcribeWithCloudflare.
CloudflareRequest(accountId, authKey, bytes, options) ==
  [NoRequest EXCEPT
     !.to = "cloudflare", !.method = "POST", !.account = accountId, !.bearer = authKey,
     !.encoding = "base64", !.audio = Base64(bytes),
     !.task = IF options.translate = "true" THEN "translate" ELSE "transcribe",
     !.vad_filter = "true",
     !.language = IF Truthy(options.language) THEN options.language ELSE ABSENT]

(***************************************************************************)
(* State                                                                   *)
(***************************************************************************)

\* handles holds the engine handles that matter, by identity in 1..MaxHandles
\* (0 is null): the path each was constructed with and how often free() was
\* called on it.
MaxHandles == 2

\* free() is called on one handle at most MaxFrees times.
MaxFrees == 2

NoEffects ==
  [written |-> 0, constructed |-> 0, freed |-> 0, converted |-> 0,
   engineCalls |-> 0, fetched |-> 0]

\* A call that has not been made: pc is the suspension point the call is at,
\* adapters the adapters invoked so far, eff what the call has done so far.
IdleCall ==
  [pc |-> "idle",
   audio |-> [kind |-> "none", path |-> "", bytes |-> NoBytes],
   options |-> NoOptions,
   explicitProvider |-> UndefinedStr,
   provider |-> "none",
   audioPath |-> "",
   tempPath |-> "",
   modelPath |-> "",
   whisper |-> 0,
   request |-> NoRequest,
   answers |-> << >>,
   results |-> << >>,
   response |-> NoResponse,
   ret |-> NoOutcome,
   result |-> NoOutcome,
   adapters |-> << >>,
   eff |-> NoEffects]

NoHandles == [h \in {} |-> [path |-> "", frees |-> 0]]

\* A handle that was freed and that neither whisperInstance nor a call refers
\* to any more is garbage: hs without the garbage, for the references wi, cl.
Collect(hs, wi, cl) ==
  [h \in {i \in DOMAIN hs :
            hs[i].frees = 0 \/ i = wi \/ \E c \in Calls : cl[c].whisper = i}
     |-> hs[h]]

\* The identity of the next handle constructed.
NewHandle == CHOOSE h \in 1..MaxHandles :
  h \notin DOMAIN handles /\ \A i \in 1..(h - 1) : i \in DOMAIN handles

\* No shutdown handler has been invoked, the process has not exited.
Signals == {"SIGINT", "SIGTERM"}

ProcRunning == [shutdown |-> [s \in Signals |-> "idle"], exited |-> FALSE]

\* The bytes of the files in f, the audio file having bytes b.
ContentsOf(f, b) ==
  [p \in AudioFiles |-> IF p = AudioPath /\ p \in f THEN b ELSE NoBytes]

\* The reference run and the probe are not used.
NoRef ==
  [phase |-> "off", whisperInstance |-> 0, currentModelPath |-> UNDEFINED,
   handles |-> NoHandles, run |-> IdleCall]

NoProbe == [x |-> << >>, once |-> << >>, twice |-> << >>, n |-> 0]

\* The module as imported: no engine handle, no call made.
ModuleLoaded ==
  /\ whisperInstance = 0
  /\ currentModelPath = UNDEFINED
  /\ handles = NoHandles
  /\ call = [c \in Calls |-> IdleCall]
  /\ proc = ProcRunning

Init ==
  /\ env \in EnvVars
  /\ fs \in {{"m2.bin"} \cup f : f \in SUBSET HostFiles}
  /\ contents = ContentsOf(fs, HostBytes)
  /\ ModuleLoaded
  /\ ref = NoRef
  /\ probe = NoProbe

\* The collaborator's answer, added to those the call has received.
Answered(r, answer) == [r EXCEPT !.answers = Append(@, answer)]

\* The adapter's promise is rejected with error.
AdapterThrows(r, error) ==
  [r EXCEPT !.pc = "adapter_done", !.ret = error, !.whisper = 0]

\* The adapter's promise is resolved with { text }.
AdapterReturns(r, text) ==
  [r EXCEPT !.pc = "adapter_done", !.ret = Ok(text), !.whisper = 0]

(***************************************************************************)
(* Whisper.cpp provider                                                    *)
(***************************************************************************)

\* getWhisperInstance without the test for a cached handle of the same path:
\* a cached handle is always freed and rebuilt.
getWhisperInstance_AlwaysRebuild(c, r) ==
  LET modelPath == env.WHISPER_CPP_MODEL_PATH
  IN  /\ UNCHANGED <<whisperInstance, currentModelPath>>
      /\ IF ~Truthy(modelPath)
         THEN /\ call' = [call EXCEPT ![c] = AdapterThrows(r, ErrModelPathNotSet)]
              /\ UNCHANGED handles
         ELSE IF modelPath \notin fs'
         THEN /\ call' = [call EXCEPT ![c] = AdapterThrows(r, ErrModelNotFound(modelPath))]
              /\ UNCHANGED handles
         ELSE IF whisperInstance # 0
         THEN /\ handles[whisperInstance].frees < MaxFrees
              /\ handles' = [handles EXCEPT ![whisperInstance].frees = @ + 1]
              /\ call' = [call EXCEPT ![c] =
                            [r EXCEPT !.pc = "w_free", !.modelPath = modelPath,
                                      !.eff.freed = @ + 1]]
         ELSE /\ call' = [call EXCEPT ![c] =
                            [r EXCEPT !.pc = "w_import", !.modelPath = modelPath]]
              /\ UNCHANGED handles

\* getWhisperInstance up to its first await, called by the call with record r.
getWhisperInstance(c, r) ==
  LET modelPath == env.WHISPER_CPP_MODEL_PATH
  IN  /\ UNCHANGED <<whisperInstance, currentModelPath>>
      /\ IF ~Truthy(modelPath)
         THEN /\ call' = [call EXCEPT ![c] = AdapterThrows(r, ErrModelPathNotSet)]
              /\ UNCHANGED handles
         ELSE IF modelPath \notin fs'
         THEN /\ call' = [call EXCEPT ![c] = AdapterThrows(r, ErrModelNotFound(modelPath))]
              /\ UNCHANGED handles
         ELSE IF whisperInstance # 0 /\ currentModelPath = modelPath
         THEN /\ call' = [call EXCEPT ![c] =
                            [r EXCEPT !.pc = "w_got", !.modelPath = modelPath,
                                      !.whisper = whisperInstance]]
              /\ UNCHANGED handles
         ELSE IF whisperInstance # 0
         THEN /\ handles[whisperInstance].frees < MaxFrees
              /\ handles' = [handles EXCEPT ![whisperInstance].frees = @ + 1]
              /\ call' = [call EXCEPT ![c] =
                            [r EXCEPT !.pc = "w_free", !.modelPath = modelPath,
                                      !.eff.freed = @ + 1]]
         ELSE /\ call' = [call EXCEPT ![c] =
                            [r EXCEPT !.pc = "w_import", !.modelPath = modelPath]]
              /\ UNCHANGED handles

\* getWhisperInstance resumed after await whisperInstance.free().
GetWhisperInstanceFreed(c) ==
  /\ call[c].pc = "w_free"
  /\ \/ /\ whisperInstance' = 0
        /\ call' = [call EXCEPT ![c] = [Answered(@, "free resolved") EXCEPT !.pc = "w_import"]]
     \/ /\ call' = [call EXCEPT ![c] =
                      AdapterThrows(Answered(@, "free rejected"), Fault("free failed"))]
        /\ UNCHANGED whisperInstance
  /\ handles' = Collect(handles, whisperInstance', call')
  /\ UNCHANGED <<env, fs, currentModelPath>>
  /\ UNCHANGED <<contents, proc, ref, probe>>

\* getWhisperInstance reading WHISPER_CPP_MODEL_PATH again after the await,
\* for the construction.
GetWhisperInstanceConstruct_RereadsEnv(c) ==
  /\ call[c].pc = "w_import"
  /\ \/ /\ Cardinality(DOMAIN handles) < MaxHandles
        /\ handles' = [h \in DOMAIN handles \cup {NewHandle} |->
                         IF h = NewHandle
                         THEN [path |-> env.WHISPER_CPP_MODEL_PATH, frees |-> 0]
                         ELSE handles[h]]
        /\ whisperInstance' = NewHandle
        /\ currentModelPath' = env.WHISPER_CPP_MODEL_PATH
        /\ call' = [call EXCEPT ![c] =
                      [Answered(@, "load done") EXCEPT
                         !.pc = "w_got", !.whisper = whisperInstance',
                         !.eff.constructed = @ + 1]]
     \/ /\ call' = [call EXCEPT ![c] =
                      AdapterThrows(Answered(@, "load failed"), Fault("engine load failed"))]
        /\ UNCHANGED <<whisperInstance, currentModelPath, handles>>
  /\ UNCHANGED <<env, fs>>
  /\ UNCHANGED <<contents, proc, ref, probe>>

\* getWhisperInstance resumed after await import('smart-whisper').
GetWhisperInstanceConstruct(c) ==
  /\ call[c].pc = "w_import"
  /\ \/ /\ Cardinality(DOMAIN handles) < MaxHandles
        /\ handles' = [h \in DOMAIN handles \cup {NewHandle} |->
                         IF h = NewHandle
                         THEN [path |-> call[c].modelPath, frees |-> 0]
                         ELSE handles[h]]
        /\ whisperInstance' = NewHandle
        /\ currentModelPath' = call[c].modelPath
        /\ call' = [call EXCEPT ![c] =
                      [Answered(@, "load done") EXCEPT
                         !.pc = "w_got", !.whisper = whisperInstance',
                         !.eff.constructed = @ + 1]]
     \/ /\ call' = [call EXCEPT ![c] =
                      AdapterThrows(Answered(@, "load failed"), Fault("engine load failed"))]
        /\ UNCHANGED <<whisperInstance, currentModelPath, handles>>
  /\ UNCHANGED <<env, fs>>
  /\ UNCHANGED <<contents, proc, ref, probe>>

\* audioToPcm removing the file after the read only, not in a finally block.
audioToPcm_UnlinkAfterRead(f, tempPcmPath, o) ==
  LET afterExec == IF o.ffmpeg \in {"done", "partial"} THEN f \cup {tempPcmPath} ELSE f
      ok == o.ffmpeg = "done" /\ o.read = "done"
  IN  [fs |-> IF ok THEN afterExec \ {tempPcmPath} ELSE afterExec,
       ok |-> ok,
       error |-> IF o.ffmpeg # "done" THEN Fault("ffmpeg failed")
                 ELSE IF o.read # "done" THEN Fault("read failed")
                 ELSE NoOutcome]

\* audioToPcm on the files f, for the outcome o of ffmpeg and of the read: the
\* files it leaves, and the samples (ok) or the exception it throws.
audioToPcm(f, tempPcmPath, o) ==
  LET afterExec == IF o.ffmpeg \in {"done", "partial"} THEN f \cup {tempPcmPath} ELSE f
      ok == o.ffmpeg = "done" /\ o.read = "done"
      afterFinally == IF tempPcmPath \in afterExec
                      THEN afterExec \ {tempPcmPath}
                      ELSE afterExec
  IN  [fs |-> afterFinally,
       ok |-> ok,
       error |-> IF o.ffmpeg # "done" THEN Fault("ffmpeg failed")
                 ELSE IF o.read # "done" THEN Fault("read failed")
                 ELSE NoOutcome]

\* transcribeWithWhisper obtaining the engine handle before looking at the audio file.
transcribeWithWhisper_HandleFirst(c, r0, audioPath) ==
  getWhisperInstance(c, [r0 EXCEPT !.adapters = Append(@, "whisper.cpp"),
                                   !.audioPath = audioPath])

\* transcribeWithWhisper up to its first await.
transcribeWithWhisper(c, r0, audioPath) ==
  LET r == [r0 EXCEPT !.adapters = Append(@, "whisper.cpp"), !.audioPath = audioPath]
  IN  IF audioPath \notin fs'
      THEN /\ call' = [call EXCEPT ![c] = AdapterThrows(r, ErrAudioNotFound(audioPath))]
           /\ UNCHANGED <<whisperInstance, currentModelPath, handles>>
      ELSE getWhisperInstance(c, r)

\* transcribeWithWhisper resumed with the handle: audioToPcm, then whisper.transcribe.
TranscribeWithWhisperConvert(c) ==
  /\ call[c].pc = "w_got"
  /\ \E o \in PcmOutcomes :
       LET pcm == audioToPcm(fs, TempPcmPath(c), o)
       IN  /\ fs' = pcm.fs
           /\ call' = [call EXCEPT ![c] =
                 IF ~pcm.ok
                 THEN AdapterThrows([Answered(@, o.answer) EXCEPT !.eff.converted = @ + 1],
                                    pcm.error)
                 ELSE [Answered(@, o.answer) EXCEPT
                         !.pc = "w_task", !.eff.converted = @ + 1,
                         !.eff.engineCalls = @ + 1,
                         !.request = EngineRequest(contents[call[c].audioPath],
                                                   call[c].options)]]
  /\ UNCHANGED <<env, whisperInstance, currentModelPath>>
  /\ UNCHANGED <<contents, proc, ref, probe>>
  /\ handles' = Collect(handles, whisperInstance, call')

\* A failed engine call falling back to the Cloudflare adapter.
TranscribeWithWhisperTask_Fallback(c) ==
  /\ call[c].pc = "w_task"
  /\ \/ call' = [call EXCEPT ![c] =
                   [Answered(@, "transcribe resolved") EXCEPT !.pc = "w_result"]]
     \/ call' = [call EXCEPT ![c] =
                   [Answered(@, "transcribe rejected") EXCEPT
                      !.pc = "cf_fetch", !.adapters = Append(@, "cloudflare"),
                      !.eff.fetched = @ + 1]]
  /\ UNCHANGED <<env, fs, whisperInstance, currentModelPath>>
  /\ UNCHANGED <<contents, proc, ref, probe>>
  /\ handles' = Collect(handles, whisperInstance, call')

\* transcribeWithWhisper resumed after await whisper.transcribe(...).
TranscribeWithWhisperTask(c) ==
  /\ call[c].pc = "w_task"
  /\ \/ call' = [call EXCEPT ![c] =
                   [Answered(@, "transcribe resolved") EXCEPT !.pc = "w_result"]]
     \/ call' = [call EXCEPT ![c] =
                   AdapterThrows(Answered(@, "transcribe rejected"), Fault("engine failed"))]
  /\ UNCHANGED <<env, fs, whisperInstance, currentModelPath>>
  /\ UNCHANGED <<contents, proc, ref, probe>>
  /\ handles' = Collect(handles, whisperInstance, call')

\* transcribeWithWhisper resumed after await task.result, which resolves to
\* one of engineResults or rejects.
TranscribeWithWhisperResultOf(c, engineResults) ==
  /\ call[c].pc = "w_result"
  /\ \/ \E results \in engineResults :
          call' = [call EXCEPT ![c] =
                     AdapterReturns([Answered(@, "result resolved") EXCEPT !.results = results],
                                    cleanTranscription(resultsToText(results)))]
     \/ call' = [call EXCEPT ![c] =
                   AdapterThrows(Answered(@, "result rejected"), Fault("engine failed"))]
  /\ UNCHANGED <<env, fs, whisperInstance, currentModelPath>>
  /\ UNCHANGED <<contents, proc, ref, probe>>
  /\ handles' = Collect(handles, whisperInstance, call')

TranscribeWithWhisperResult(c) == TranscribeWithWhisperResultOf(c, EngineResults)

(***************************************************************************)
(* Cloudflare provider                                                     *)
(***************************************************************************)

\* transcribeWithCloudflare up to its first await (the fetch).
transcribeWithCloudflare(c, r0, audioPath) ==
  LET r == [r0 EXCEPT !.adapters = Append(@, "cloudflare"), !.audioPath = audioPath]
      accountId == env.CLOUDFLARE_ACCOUNT_ID
      authKey == env.CLOUDFLARE_AUTH_KEY
  IN  /\ UNCHANGED <<whisperInstance, currentModelPath, handles>>
      /\ call' = [call EXCEPT ![c] =
           IF audioPath \notin fs' THEN AdapterThrows(r, ErrAudioNotFound(audioPath))
           ELSE IF ~Truthy(accountId) \/ ~Truthy(authKey) THEN AdapterThrows(r, ErrCredentials)
           ELSE [r EXCEPT !.pc = "cf_fetch", !.eff.fetched = @ + 1,
                          !.request = CloudflareRequest(accountId, authKey,
                                                        contents'[audioPath], r.options)]]

\* transcribeWithCloudflare resumed after await fetch(...), which resolves to
\* one of responses or rejects.
TranscribeWithCloudflareResponseOf(c, responses) ==
  /\ call[c].pc = "cf_fetch"
  /\ \/ \E response \in responses :
          call' = [call EXCEPT ![c] =
                     [Answered(@, "fetch resolved") EXCEPT
                        !.response = response,
                        !.pc = IF response.ok THEN "cf_json" ELSE "cf_text"]]
     \/ call' = [call EXCEPT ![c] =
                   AdapterThrows(Answered(@, "fetch rejected"), Fault("fetch failed"))]
  /\ UNCHANGED <<env, fs, whisperInstance, currentModelPath, handles>>
  /\ UNCHANGED <<contents, proc, ref, probe>>

TranscribeWithCloudflareResponse(c) == TranscribeWithCloudflareResponseOf(c, Responses)

\* The error message without the status text.
TranscribeWithCloudflareErrorBody_NoStatusText(c) ==
  /\ call[c].pc = "cf_text"
  /\ LET response == call[c].response
     IN  \/ call' = [call EXCEPT ![c] =
              AdapterThrows(Answered(@, "text resolved"),
                            ErrCloudflareApi(response.status, response.status,
                                             response.body))]
         \/ call' = [call EXCEPT ![c] =
              AdapterThrows(Answered(@, "text rejected"), Fault("body failed"))]
  /\ UNCHANGED <<env, fs, whisperInstance, currentModelPath, handles>>
  /\ UNCHANGED <<contents, proc, ref, probe>>

\* transcribeWithCloudflare resumed after await response.text().
TranscribeWithCloudflareErrorBody(c) ==
  /\ call[c].pc = "cf_text"
  /\ LET response == call[c].response
     IN  \/ call' = [call EXCEPT ![c] =
              AdapterThrows(Answered(@, "text resolved"),
                            ErrCloudflareApi(response.status, response.statusText,
                                             response.body))]
         \/ call' = [call EXCEPT ![c] =
              AdapterThrows(Answered(@, "text rejected"), Fault("body failed"))]
  /\ UNCHANGED <<env, fs, whisperInstance, currentModelPath, handles>>
  /\ UNCHANGED <<contents, proc, ref, probe>>

\* The last reported error's message instead of the first.
errorMessageOf_Last(data) ==
  IF data.errors # << >> /\ Truthy(data.errors[Len(data.errors)])
  THEN data.errors[Len(data.errors)]
  ELSE "Unknown Cloudflare API error"

\* data.errors?.[0]?.message || 'Unknown Cloudflare API error'
errorMessageOf(data) ==
  IF data.errors # << >> /\ Truthy(data.errors[1])
  THEN data.errors[1]
  ELSE "Unknown Cloudflare API error"

\* An empty result text returned as a text: only a missing text is a failure.
TranscribeWithCloudflareJson_EmptyTextOk(c) ==
  /\ call[c].pc = "cf_json"
  /\ LET data == call[c].response.data
     IN  call' = [call EXCEPT ![c] =
           IF ~call[c].response.isJson
           THEN AdapterThrows(@, Fault("invalid json"))
           ELSE IF ~data.success \/ ~data.result.has
           THEN AdapterThrows(@, ErrCloudflareFailed(errorMessageOf(data)))
           ELSE AdapterReturns(@, cleanTranscription(data.result.text))]
  /\ UNCHANGED <<env, fs, whisperInstance, currentModelPath, handles>>
  /\ UNCHANGED <<contents, proc, ref, probe>>

\* transcribeWithCloudflare resumed after await response.json().
TranscribeWithCloudflareJson(c) ==
  /\ call[c].pc = "cf_json"
  /\ LET data == call[c].response.data
     IN  call' = [call EXCEPT ![c] =
           IF ~call[c].response.isJson
           THEN AdapterThrows(@, Fault("invalid json"))
           ELSE IF ~data.success \/ ~data.result.has \/ data.result.text = << >>
           THEN AdapterThrows(@, ErrCloudflareFailed(errorMessageOf(data)))
           ELSE AdapterReturns(@, cleanTranscription(data.result.text))]
  /\ UNCHANGED <<env, fs, whisperInstance, currentModelPath, handles>>
  /\ UNCHANGED <<contents, proc, ref, probe>>

(***************************************************************************)
(* Main transcribe function                                                *)
(***************************************************************************)

transcribeFromPath(c, r, audioPath, provider) ==
  IF provider = "cloudflare"
  THEN transcribeWithCloudflare(c, r, audioPath)
  ELSE transcribeWithWhisper(c, r, audioPath)

\* transcribeFromBuffer creating the temporary file without the buffer's bytes.
transcribeFromBuffer_EmptyFile(c, r, provider) ==
  LET tempPath == TempInputPath(c)
  IN  /\ fs' = fs \cup {tempPath}
      /\ contents' = [contents EXCEPT ![tempPath] = << >>]
      /\ transcribeFromPath(c, [r EXCEPT !.tempPath = tempPath, !.eff.written = @ + 1],
                            tempPath, provider)

\* transcribeFromBuffer up to its await: write the temporary file, dispatch.
transcribeFromBuffer(c, r, provider) ==
  LET tempPath == TempInputPath(c)
  IN  /\ fs' = fs \cup {tempPath}
      /\ contents' = [contents EXCEPT ![tempPath] = r.audio.bytes]
      /\ transcribeFromPath(c, [r EXCEPT !.tempPath = tempPath, !.eff.written = @ + 1],
                            tempPath, provider)

\* transcribe writing the temporary file of a buffer before it selects the
\* provider.
TranscribeOf_WriteFirst(c, inputs) ==
  /\ call[c].pc = "idle"
  /\ UNCHANGED env
  /\ UNCHANGED <<proc, ref, probe>>
  /\ \E input \in inputs :
       LET audio == input.audio
           sel == selectProvider(env, fs)
           r == [call[c] EXCEPT !.audio = audio,
                                !.options = input.options,
                                !.explicitProvider = explicitProviderOf(env),
                                !.provider = sel.provider]
       IN  IF ~sel.ok
           THEN /\ call' = [call EXCEPT ![c] =
                              [r EXCEPT !.pc = "settled", !.result = sel.error,
                                        !.eff.written = IF audio.kind = "buffer" THEN 1 ELSE 0]]
                /\ fs' = IF audio.kind = "buffer" THEN fs \cup {TempInputPath(c)} ELSE fs
                /\ contents' = IF audio.kind = "buffer"
                               THEN [contents EXCEPT ![TempInputPath(c)] = audio.bytes]
                               ELSE contents
                /\ UNCHANGED <<whisperInstance, currentModelPath, handles>>
           ELSE IF audio.kind = "buffer"
           THEN transcribeFromBuffer(c, r, sel.provider)
           ELSE /\ fs' = fs
                /\ contents' = contents
                /\ transcribeFromPath(c, r, audio.path, sel.provider)

\* transcribe(audio, options) up to its first await, for arguments in inputs.
TranscribeOf(c, inputs) ==
  /\ call[c].pc = "idle"
  /\ UNCHANGED env
  /\ UNCHANGED <<proc, ref, probe>>
  /\ \E input \in inputs :
       LET audio == input.audio
           sel == selectProvider(env, fs)
           r == [call[c] EXCEPT !.audio = audio,
                                !.options = input.options,
                                !.explicitProvider = explicitProviderOf(env),
                                !.provider = sel.provider]
       IN  IF ~sel.ok
           THEN /\ call' = [call EXCEPT ![c] = [r EXCEPT !.pc = "settled", !.result = sel.error]]
                /\ UNCHANGED <<fs, contents, whisperInstance, currentModelPath, handles>>
           ELSE IF audio.kind = "buffer"
           THEN transcribeFromBuffer(c, r, sel.provider)
           ELSE /\ fs' = fs
                /\ contents' = contents
                /\ transcribeFromPath(c, r, audio.path, sel.provider)

Transcribe(c) == TranscribeOf(c, AudioInputs)

\* The temporary file removed after the await only, not in a finally block.
Settle_UnlinkOnSuccess(c) ==
  /\ call[c].pc = "adapter_done"
  /\ fs' = IF call[c].audio.kind = "buffer" /\ call[c].ret.kind = "ok"
           THEN fs \ {call[c].tempPath}
           ELSE fs
  /\ contents' = [p \in AudioFiles |-> IF p \in fs' THEN contents[p] ELSE NoBytes]
  /\ call' = [call EXCEPT ![c].pc = "settled", ![c].result = call[c].ret,
                          ![c].ret = NoOutcome]
  /\ UNCHANGED <<env, whisperInstance, currentModelPath, handles>>
  /\ UNCHANGED <<proc, ref, probe>>

\* The adapter's promise settles the call: for a buffer, through the finally
\* block of transcribeFromBuffer.
Settle(c) ==
  /\ call[c].pc = "adapter_done"
  /\ fs' = IF call[c].audio.kind = "buffer" /\ call[c].tempPath \in fs
           THEN fs \ {call[c].tempPath}
           ELSE fs
  /\ contents' = [p \in AudioFiles |-> IF p \in fs' THEN contents[p] ELSE NoBytes]
  /\ call' = [call EXCEPT ![c].pc = "settled", ![c].result = call[c].ret,
                          ![c].ret = NoOutcome]
  /\ UNCHANGED <<env, whisperInstance, currentModelPath, handles>>
  /\ UNCHANGED <<proc, ref, probe>>

\* The caller has taken the call's result; it may call again.
Return(c) ==
  /\ call[c].pc = "settled"
  /\ call' = [call EXCEPT ![c] = IdleCall]
  /\ UNCHANGED <<env, fs, whisperInstance, currentModelPath, handles>>
  /\ UNCHANGED <<contents, proc, ref, probe>>

(***************************************************************************)
(* The host: it sets the environment and the files between calls.         *)
(***************************************************************************)

Quiescent == \A c \in Calls : call[c].pc = "idle"

SetEnv ==
  /\ Quiescent
  /\ \E k \in DOMAIN env :
       \E v \in {e[k] : e \in EnvVars} : env' = [env EXCEPT ![k] = v]
  /\ UNCHANGED <<fs, whisperInstance, currentModelPath, handles, call>>
  /\ UNCHANGED <<contents, proc, ref, probe>>

SetFile ==
  /\ Quiescent
  /\ \E f \in HostFiles : fs' = IF f \in fs THEN fs \ {f} ELSE fs \cup {f}
  /\ contents' = [contents EXCEPT ![AudioPath] =
                    IF AudioPath \in fs' THEN HostBytes ELSE NoBytes]
  /\ UNCHANGED <<env, whisperInstance, currentModelPath, handles, call>>
  /\ UNCHANGED <<proc, ref, probe>>

Next ==
  \/ \E c \in SeqCalls :
       \/ Transcribe(c)
       \/ GetWhisperInstanceFreed(c)
       \/ GetWhisperInstanceConstruct(c)
       \/ TranscribeWithWhisperConvert(c)
       \/ TranscribeWithWhisperTask(c)
       \/ TranscribeWithWhisperResult(c)
       \/ TranscribeWithCloudflareResponse(c)
       \/ TranscribeWithCloudflareErrorBody(c)
       \/ TranscribeWithCloudflareJson(c)
       \/ Settle(c)
       \/ Return(c)
  \/ SetEnv
  \/ SetFile

Spec == Init /\ [][Next]_vars

(***************************************************************************)
(* A path call and a buffer call compared.  The path call runs on the     *)
(* audio file; then the module is brought back to the state the path call *)
(* started in and the buffer call runs on the bytes of the file, with the *)
(* same options, the collaborators answering it as they answered the path *)
(* call.                                                                   *)
(***************************************************************************)

\* The module with the engine handle of an earlier call for modelPath cached.
ModuleWarm(modelPath) ==
  /\ whisperInstance = 1
  /\ currentModelPath = modelPath
  /\ handles = [h \in {1} |-> [path |-> modelPath, frees |-> 0]]
  /\ call = [c \in Calls |-> IdleCall]
  /\ proc = ProcRunning

InitPair ==
  /\ env \in {e \in EnvVars : e.STT_PROVIDER = UndefinedStr}
  /\ fs \in {{"m2.bin", AudioPath} \cup f : f \in SUBSET {"m1.bin"}}
  /\ \E b \in AudioBytes : contents = ContentsOf(fs, b)
  /\ ModuleLoaded \/ \E m \in ModelPaths : ModuleWarm(m)
  /\ ref = [NoRef EXCEPT !.phase = "path", !.whisperInstance = whisperInstance,
                         !.currentModelPath = currentModelPath, !.handles = handles]
  /\ probe = NoProbe

IsPrefix(s, t) == Len(s) <= Len(t) /\ SubSeq(t, 1, Len(s)) = s

Range(s) == {s[i] : i \in 1..Len(s)}

\* The collaborators answer the buffer call as they answered the path call.
SameAnswers(c) ==
  ref.phase = "buffer"
    => /\ IsPrefix(call'[c].answers, ref.run.answers)
       /\ call'[c].results = IF "result resolved" \in Range(call'[c].answers)
                             THEN ref.run.results ELSE << >>
       /\ call'[c].response = IF "fetch resolved" \in Range(call'[c].answers)
                              THEN ref.run.response ELSE NoResponse

\* The path call, then the buffer call with the file's bytes and the same options.
PairTranscribe(c) ==
  /\ TranscribeOf(c, AudioInputsWithOptions)
  /\ ref.phase = "path" => call'[c].audio.kind = "path"
  /\ ref.phase = "buffer"
       => /\ call'[c].audio = BufferAudio(contents[AudioPath])
          /\ call'[c].options = ref.run.options

\* The path call has settled: keep it, restore the module for the buffer call.
PairReplay(c) ==
  /\ ref.phase = "path"
  /\ call[c].pc = "settled"
  /\ ref' = [ref EXCEPT !.phase = "buffer", !.run = call[c]]
  /\ call' = [call EXCEPT ![c] = IdleCall]
  /\ whisperInstance' = ref.whisperInstance
  /\ currentModelPath' = ref.currentModelPath
  /\ handles' = ref.handles
  /\ UNCHANGED <<env, fs, contents, proc, probe>>

NextPair ==
  \E c \in SeqCalls :
    \/ PairTranscribe(c)
    \/ GetWhisperInstanceFreed(c) /\ SameAnswers(c)
    \/ GetWhisperInstanceConstruct(c) /\ SameAnswers(c)
    \/ TranscribeWithWhisperConvert(c) /\ SameAnswers(c)
    \/ TranscribeWithWhisperTask(c) /\ SameAnswers(c)
    \/ TranscribeWithWhisperResult(c) /\ SameAnswers(c)
    \/ TranscribeWithCloudflareResponse(c) /\ SameAnswers(c)
    \/ TranscribeWithCloudflareErrorBody(c) /\ SameAnswers(c)
    \/ TranscribeWithCloudflareJson(c)
    \/ Settle(c)
    \/ PairReplay(c)

SpecPair == InitPair /\ [][NextPair]_vars

(***************************************************************************)
(* Cleanup handlers, and calls that overlap.  A signal invokes             *)
(* shutdownHandler; the host may call transcribe while another call is     *)
(* suspended, and change WHISPER_CPP_MODEL_PATH between any two steps.     *)
(***************************************************************************)

\* process.on('exit', ...) and the end of the process: nothing runs any more.
ProcessExit ==
  /\ whisperInstance' = 0
  /\ currentModelPath' = IF whisperInstance # 0 THEN UNDEFINED ELSE currentModelPath
  /\ proc' = [shutdown |-> [s \in Signals |-> "exited"], exited |-> TRUE]
  /\ call' = [c \in Calls |-> [call[c] EXCEPT !.pc = "exited", !.whisper = 0]]
  /\ handles' = Collect(handles, 0, call')

\* A continuation waits on a promise that is already settled: it runs before
\* the event loop delivers anything else.
MicrotaskPending ==
  \/ \E c \in Calls : call[c].pc \in {"w_got", "adapter_done"}
  \/ \E sig \in Signals : proc.shutdown[sig] = "exiting"

\* shutdownHandler calling process.exit(0) without awaiting freeWhisper().
Signal_ExitOnly(sig) ==
  /\ proc.shutdown[sig] = "idle"
  /\ ~MicrotaskPending
  /\ proc' = [proc EXCEPT !.shutdown[sig] = "exiting"]
  /\ UNCHANGED <<env, fs, contents, whisperInstance, currentModelPath, handles, call,
                 ref, probe>>

\* SIGINT or SIGTERM is delivered: shutdownHandler runs freeWhisper up to its
\* await, or up to the await of freeWhisper() when no handle is cached.
Signal(sig) ==
  /\ proc.shutdown[sig] = "idle"
  /\ ~MicrotaskPending
  /\ IF whisperInstance # 0
     THEN /\ handles[whisperInstance].frees < MaxFrees
          /\ handles' = [handles EXCEPT ![whisperInstance].frees = @ + 1]
          /\ proc' = [proc EXCEPT !.shutdown[sig] = "freeing"]
     ELSE /\ proc' = [proc EXCEPT !.shutdown[sig] = "exiting"]
          /\ UNCHANGED handles
  /\ UNCHANGED <<env, fs, contents, whisperInstance, currentModelPath, call, ref, probe>>

\* freeWhisper resumed after await whisperInstance.free(): it clears the
\* cache, or free() rejected and shutdownHandler's promise is rejected.
ShutdownFreed(sig) ==
  /\ proc.shutdown[sig] = "freeing"
  /\ \/ /\ whisperInstance' = 0
        /\ currentModelPath' = UNDEFINED
        /\ proc' = [proc EXCEPT !.shutdown[sig] = "exiting"]
     \/ /\ proc' = [proc EXCEPT !.shutdown[sig] = "rejected"]
        /\ UNCHANGED <<whisperInstance, currentModelPath>>
  /\ handles' = Collect(handles, whisperInstance', call)
  /\ UNCHANGED <<env, fs, contents, call, ref, probe>>

\* shutdownHandler resumed after await freeWhisper(): process.exit(0).
ShutdownExit(sig) ==
  /\ proc.shutdown[sig] = "exiting"
  /\ ProcessExit
  /\ UNCHANGED <<env, fs, contents, ref, probe>>

\* The rejection of shutdownHandler's promise is not handled: the runtime
\* ends the process.
ShutdownUnhandled(sig) ==
  /\ proc.shutdown[sig] = "rejected"
  /\ ProcessExit
  /\ UNCHANGED <<env, fs, contents, ref, probe>>

\* The host sets WHISPER_CPP_MODEL_PATH to another model.
SetModelPath ==
  /\ ~proc.exited
  /\ \E m \in ModelPaths \ {env.WHISPER_CPP_MODEL_PATH} :
       env' = [env EXCEPT !.WHISPER_CPP_MODEL_PATH = m]
  /\ UNCHANGED <<fs, contents, whisperInstance, currentModelPath, handles, call,
                 proc, ref, probe>>

\* Only whisper.cpp is configured, both model files and the audio file exist.
InitRace ==
  /\ env \in [PROVIDER : {UndefinedStr},
               STT_PROVIDER : {UndefinedStr},
               WHISPER_CPP_MODEL_PATH : ModelPaths,
               CLOUDFLARE_ACCOUNT_ID : {""},
               CLOUDFLARE_AUTH_KEY : {UNDEFINED}]
  /\ fs = {"m1.bin", "m2.bin", AudioPath}
  /\ contents = ContentsOf(fs, HostBytes)
  /\ ModuleLoaded
  /\ ref = NoRef
  /\ probe = NoProbe

\* The overlapping calls transcribe the same file, and the engine gives each
\* the same segments.
RaceInputs == {[audio |-> PathAudio(AudioPath), options |-> NoOptions]}
RaceResults ==
  {<<[text |-> <<72, 101, 108, 108, 111, 44>>],
     [text |-> <<119, 111, 114, 108, 100, 33>>]>>}

\* Every collaborator of the call has answered without failing.
AnswersWell(c) ==
  Range(call'[c].answers) \subseteq
    {"free resolved", "load done", "ffmpeg done", "transcribe resolved",
     "result resolved"}

RaceTranscribe(c) == TranscribeOf(c, RaceInputs)
RaceResult(c) == TranscribeWithWhisperResultOf(c, RaceResults)

NextRace ==
  \/ \E c \in Calls :
       \/ RaceTranscribe(c)
       \/ GetWhisperInstanceFreed(c) /\ AnswersWell(c)
       \/ GetWhisperInstanceConstruct(c) /\ AnswersWell(c)
       \/ TranscribeWithWhisperConvert(c) /\ AnswersWell(c)
       \/ TranscribeWithWhisperTask(c) /\ AnswersWell(c)
       \/ RaceResult(c) /\ AnswersWell(c)
       \/ Settle(c)
       \/ Return(c)
  \/ \E sig \in Signals :
       \/ Signal(sig)
       \/ ShutdownFreed(sig)
       \/ ShutdownExit(sig)
       \/ ShutdownUnhandled(sig)
  \/ SetModelPath

SpecRace == InitRace /\ [][NextRace]_vars

(***************************************************************************)
(* Shutdown signals while one caller transcribes, each call awaited: the  *)
(* collaborators may fail, the input is a path or a buffer.               *)
(***************************************************************************)

NextShutdown ==
  \/ \E c \in SeqCalls :
       \/ Transcribe(c)
       \/ GetWhisperInstanceFreed(c)
       \/ GetWhisperInstanceConstruct(c)
       \/ TranscribeWithWhisperConvert(c)
       \/ TranscribeWithWhisperTask(c)
       \/ RaceResult(c)
       \/ Settle(c)
       \/ Return(c)
  \/ \E sig \in Signals :
       \/ Signal(sig)
       \/ ShutdownFreed(sig)
       \/ ShutdownExit(sig)
       \/ ShutdownUnhandled(sig)
  \/ SetModelPath

SpecShutdown == InitRace /\ [][NextShutdown]_vars

(***************************************************************************)
(* Two calls that overlap while the host changes the model path and the   *)
(* model file between any two steps, after earlier calls that left no     *)
(* engine handle or one.  Only whisper.cpp can be configured; the         *)
(* collaborators may fail.                                                 *)
(***************************************************************************)

\* The host sets WHISPER_CPP_MODEL_PATH to another value, or unsets it.
SetModelPathAny ==
  /\ \E m \in ModelPathValues \ {env.WHISPER_CPP_MODEL_PATH} :
       env' = [env EXCEPT !.WHISPER_CPP_MODEL_PATH = m]
  /\ UNCHANGED <<fs, contents, whisperInstance, currentModelPath, handles, call,
                 proc, ref, probe>>

\* The host creates or deletes the model file m1.bin.
SetModelFile ==
  /\ fs' = IF "m1.bin" \in fs THEN fs \ {"m1.bin"} ELSE fs \cup {"m1.bin"}
  /\ UNCHANGED <<env, contents, whisperInstance, currentModelPath, handles, call,
                 proc, ref, probe>>

InitInterleave ==
  /\ env \in [PROVIDER : {UndefinedStr},
               STT_PROVIDER : {UndefinedStr},
               WHISPER_CPP_MODEL_PATH : ModelPathValues,
               CLOUDFLARE_ACCOUNT_ID : {""},
               CLOUDFLARE_AUTH_KEY : {UNDEFINED}]
  /\ fs \in {{"m2.bin", AudioPath} \cup f : f \in SUBSET {"m1.bin"}}
  /\ contents = ContentsOf(fs, HostBytes)
  /\ ModuleLoaded \/ \E m \in ModelPaths : ModuleWarm(m)
  /\ ref = NoRef
  /\ probe = NoProbe

NextInterleave ==
  \/ \E c \in Calls :
       \/ RaceTranscribe(c)
       \/ GetWhisperInstanceFreed(c)
       \/ GetWhisperInstanceConstruct(c)
       \/ TranscribeWithWhisperConvert(c)
       \/ TranscribeWithWhisperTask(c)
       \/ RaceResult(c)
       \/ Settle(c)
  \/ SetModelPathAny
  \/ SetModelFile

SpecInterleave == InitInterleave /\ [][NextInterleave]_vars

(***************************************************************************)
(* The normalizer on every short string x: cleanTranscription applied to  *)
(* x, and to its own result, and a call whose provider answers x.         *)
(***************************************************************************)

\* The longest string tried.
MaxLen == 3

\* NUL, TAB, LF, space, 'H', DEL, no-break space.
Chars == {0, 9, 10, 32, 72, 127, 160}

Texts == UNION {[1..n -> Chars] : n \in 0..MaxLen}

InitNormalize ==
  /\ env \in [PROVIDER : {WhisperCppName, CloudflareName},
               STT_PROVIDER : {UndefinedStr},
               WHISPER_CPP_MODEL_PATH : {"m2.bin"},
               CLOUDFLARE_ACCOUNT_ID : {"acct"},
               CLOUDFLARE_AUTH_KEY : {"key"}]
  /\ fs = {"m2.bin", AudioPath}
  /\ contents = ContentsOf(fs, HostBytes)
  /\ ModuleLoaded
  /\ ref = NoRef
  /\ probe \in {[NoProbe EXCEPT !.x = t] : t \in Texts}

\* cleanTranscription(x), then cleanTranscription of that.
ApplyCleanTranscription ==
  /\ probe.n \in {0, 1}
  /\ probe' = IF probe.n = 0
              THEN [probe EXCEPT !.once = cleanTranscription(probe.x), !.n = 1]
              ELSE [probe EXCEPT !.twice = cleanTranscription(probe.once), !.n = 2]
  /\ UNCHANGED <<env, fs, contents, whisperInstance, currentModelPath, handles, call,
                 proc, ref>>

\* The engine's result is the one segment x.
NormalizeResult(c) == TranscribeWithWhisperResultOf(c, {<<[text |-> probe.x]>>})

\* The remote API's response is a success with the result text x.
NormalizeResponse(c) ==
  TranscribeWithCloudflareResponseOf(
    c, {JsonResponse([success |-> TRUE, result |-> [has |-> TRUE, text |-> probe.x],
                      errors |-> << >>])})

NextNormalize ==
  \/ \E c \in SeqCalls :
       \/ Transcribe(c)
       \/ GetWhisperInstanceConstruct(c)
       \/ TranscribeWithWhisperConvert(c)
       \/ TranscribeWithWhisperTask(c)
       \/ NormalizeResult(c)
       \/ NormalizeResponse(c)
       \/ TranscribeWithCloudflareJson(c)
       \/ Settle(c)
       \/ Return(c)
  \/ ApplyCleanTranscription

SpecNormalize == InitNormalize /\ [][NextNormalize]_vars

(***************************************************************************)
(* Vocabulary of the properties.  These read the environment and the file *)
(* system directly, not through the operators that model the code.        *)
(***************************************************************************)

\* The call has been made and its result not yet taken.
InCall(c) == call[c].pc # "idle"

\* The call has settled: its promise is resolved or rejected.
Settled(c) == call[c].pc = "settled"

\* The local provider is configured: the model path is set and its file exists.
LocalConfigured ==
  /\ env.WHISPER_CPP_MODEL_PATH \notin {UNDEFINED, ""}
  /\ env.WHISPER_CPP_MODEL_PATH \in fs

\* The model path is set and its file does not exist.
LocalPathSetFileMissing ==
  /\ env.WHISPER_CPP_MODEL_PATH \notin {UNDEFINED, ""}
  /\ env.WHISPER_CPP_MODEL_PATH \notin fs

\* The remote provider is configured: both credentials are set.
RemoteConfigured ==
  /\ env.CLOUDFLARE_ACCOUNT_ID \notin {UNDEFINED, ""}
  /\ env.CLOUDFLARE_AUTH_KEY \notin {UNDEFINED, ""}

\* No explicit override: PROVIDER is not set, or is empty.
NoOverride == env.PROVIDER \in {UndefinedStr, << >>}

\* s is name with some of its letters in upper case.
IsCaseVariant(s, name) ==
  /\ Len(s) = Len(name)
  /\ \A i \in 1..Len(name) :
       s[i] = name[i] \/ (name[i] \in 97..122 /\ s[i] = name[i] - 32)

\* The explicit override names the provider, in any case.
OverrideNames(name) == env.PROVIDER # UndefinedStr /\ IsCaseVariant(env.PROVIDER, name)

\* The explicit override is set and is the name of no provider, in any case.
OverrideUnknown ==
  /\ env.PROVIDER \notin {UndefinedStr, << >>}
  /\ ~IsCaseVariant(env.PROVIDER, WhisperCppName)
  /\ ~IsCaseVariant(env.PROVIDER, CloudflareName)

\* The ASCII control characters.
ControlCodes == (0..31) \cup {127}

\* White space: TAB, LF, VT, FF, CR, space, no-break space, the Unicode space
\* separators, the line and paragraph separators, the byte order mark.
WhitespaceCodes ==
  {9, 10, 11, 12, 13, 32, 160, 5760, 8232, 8233, 8239, 8287, 12288, 65279}
    \cup (8192..8202)

\* t has no control character and neither starts nor ends with white space.
IsNormalized(t) ==
  /\ \A i \in 1..Len(t) : t[i] \notin ControlCodes
  /\ t # << >> => (t[1] \notin WhitespaceCodes /\ t[Len(t)] \notin WhitespaceCodes)

\* The last answer a collaborator gave the call.
LastAnswer(c) ==
  IF call[c].answers = << >> THEN "none" ELSE call[c].answers[Len(call[c].answers)]

\* The first n of texts, in order, with one space between consecutive ones.
RECURSIVE ConcatWithSpaces(_, _)
ConcatWithSpaces(texts, n) ==
  IF n = 0 THEN << >>
  ELSE IF n = 1 THEN texts[1]
  ELSE ConcatWithSpaces(texts, n - 1) \o <<32>> \o texts[n]

\* The remote API answered the call with a success status and a JSON body
\* that has success=false or lacks a result text.
RemoteUnsuccessful(c) ==
  /\ call[c].response.ok /\ call[c].response.isJson
  /\ \/ ~call[c].response.data.success
     \/ ~call[c].response.data.result.has
     \/ call[c].response.data.result.text = << >>

\* The audio the call was given exists: a buffer, or a path of an existing file.
AudioExists(c) ==
  call[c].audio.kind = "buffer" \/ (call[c].audio.kind = "path" /\ call[c].audio.path \in fs)

\* The answers a call suspended at pc is waiting for.
AnswersAt(pc) ==
  CASE pc = "w_free" -> {"free resolved", "free rejected"}
    [] pc = "w_import" -> {"load done", "load failed"}
    [] pc = "w_got" -> {"ffmpeg done", "ffmpeg failed", "ffmpeg partial", "read failed"}
    [] pc = "w_task" -> {"transcribe resolved", "transcribe rejected"}
    [] pc = "w_result" -> {"result resolved", "result rejected"}
    [] pc = "cf_fetch" -> {"fetch resolved", "fetch rejected"}
    [] pc = "cf_text" -> {"text resolved", "text rejected"}
    [] OTHER -> {}

\* The provider a call made now selects ("none": the call rejects), from the
\* environment and the files alone.
ProviderFor ==
  IF OverrideNames(WhisperCppName)
  THEN IF LocalConfigured THEN "whisper.cpp" ELSE "none"
  ELSE IF OverrideNames(CloudflareName)
  THEN IF RemoteConfigured THEN "cloudflare" ELSE "none"
  ELSE IF OverrideUnknown THEN "none"
  ELSE IF LocalConfigured THEN "whisper.cpp"
  ELSE IF RemoteConfigured THEN "cloudflare"
  ELSE "none"

\* The bytes of the audio the call was given.
GivenBytes(c) ==
  IF call[c].audio.kind = "buffer" THEN call[c].audio.bytes ELSE contents[call[c].audio.path]

\* The engine handles constructed and not freed.
LiveHandles == {h \in DOMAIN handles : handles[h].frees = 0}

\* The call did nothing of the local provider's work.
NoLocalWork(c) ==
  /\ call[c].eff.constructed = 0
  /\ call[c].eff.freed = 0
  /\ call[c].eff.converted = 0
  /\ call[c].eff.engineCalls = 0

\* The call sent no request to the remote API.
NoRemoteWork(c) == call[c].eff.fetched = 0

\* The call's adapter has finished with this outcome (settled or about to).
AdapterOutcome(c) ==
  IF call[c].pc = "settled" THEN call[c].result ELSE call[c].ret

(***************************************************************************)
(* C1.  With no explicit override, whenever both the local provider and   *)
(* the remote provider are configured, a call selects whisper.cpp, never  *)
(* invokes the Cloudflare adapter and sends no request to the remote API, *)
(* whether its input is a path or a buffer.                                *)
(***************************************************************************)
C1_LocalPreferred ==
  \A c \in Calls :
    (InCall(c) /\ NoOverride /\ LocalConfigured /\ RemoteConfigured)
      => /\ call[c].provider = "whisper.cpp"
         /\ call[c].adapters = <<"whisper.cpp">>
         /\ NoRemoteWork(c)

\* A buffer call, both providers configured, served by whisper.cpp to the end.
C1_Witness ==
  \E c \in Calls :
    /\ Settled(c) /\ NoOverride /\ LocalConfigured /\ RemoteConfigured
    /\ call[c].audio.kind = "buffer"
    /\ call[c].result.kind = "ok"
    /\ call[c].eff.engineCalls = 1

(***************************************************************************)
(* C2.  An explicit override is authoritative and strict.  When it names  *)
(* a configured provider, that provider is selected and the other one is  *)
(* never invoked, whatever else is configured.  When it names a provider  *)
(* that is not configured, the call rejects with an error that names the  *)
(* provider and its settings, and no adapter is invoked, even when the    *)
(* other provider is configured.                                           *)
(***************************************************************************)
C2_OverrideStrict ==
  \A c \in Calls :
    InCall(c) =>
      /\ (OverrideNames(CloudflareName) /\ RemoteConfigured)
           => /\ call[c].provider = "cloudflare"
              /\ call[c].adapters = <<"cloudflare">>
              /\ NoLocalWork(c)
      /\ (OverrideNames(WhisperCppName) /\ LocalConfigured)
           => /\ call[c].provider = "whisper.cpp"
              /\ call[c].adapters = <<"whisper.cpp">>
              /\ NoRemoteWork(c)
      /\ (OverrideNames(CloudflareName) /\ ~RemoteConfigured)
           => /\ Settled(c)
              /\ call[c].result.kind = "PROVIDER is set but provider is not configured"
              /\ {"cloudflare", "CLOUDFLARE_ACCOUNT_ID", "CLOUDFLARE_AUTH_KEY"}
                   \subseteq call[c].result.mentions
              /\ call[c].adapters = << >>
              /\ NoLocalWork(c) /\ NoRemoteWork(c)
      /\ (OverrideNames(WhisperCppName) /\ ~LocalConfigured)
           => /\ Settled(c)
              /\ call[c].result.kind = "PROVIDER is set but provider is not configured"
              /\ {"whisper.cpp", "WHISPER_CPP_MODEL_PATH"} \subseteq call[c].result.mentions
              /\ call[c].adapters = << >>
              /\ NoLocalWork(c) /\ NoRemoteWork(c)

\* whisper.cpp is requested, its model path is set but the file is missing, and
\* Cloudflare is fully configured: the call has rejected without using Cloudflare.
C2_Witness ==
  \E c \in Calls :
    /\ Settled(c)
    /\ OverrideNames(WhisperCppName) /\ LocalPathSetFileMissing /\ RemoteConfigured
    /\ call[c].result.kind = "PROVIDER is set but provider is not configured"
    /\ call[c].eff.fetched = 0

(***************************************************************************)
(* C3.  The explicit override is read from STT_PROVIDER: when it is set,  *)
(* the provider it names is used, or the call rejects because that        *)
(* provider is not configured; PROVIDER is consulted only when            *)
(* STT_PROVIDER is not set.                                                *)
(***************************************************************************)
C3_SttProviderIsTheOverride ==
  \A c \in Calls :
    (InCall(c) /\ env.STT_PROVIDER # UndefinedStr /\ env.STT_PROVIDER # << >>)
      => /\ IsCaseVariant(env.STT_PROVIDER, CloudflareName)
              => IF RemoteConfigured
                 THEN call[c].provider = "cloudflare"
                 ELSE /\ Settled(c)
                      /\ call[c].provider = "none"
                      /\ call[c].result.kind # "ok"
         /\ IsCaseVariant(env.STT_PROVIDER, WhisperCppName)
              => IF LocalConfigured
                 THEN call[c].provider = "whisper.cpp"
                 ELSE /\ Settled(c)
                      /\ call[c].provider = "none"
                      /\ call[c].result.kind # "ok"

(***************************************************************************)
(* C4.  With no provider configured and no override, a call rejects with  *)
(* 'No STT provider configured', the message names WHISPER_CPP_MODEL_PATH, *)
(* CLOUDFLARE_ACCOUNT_ID and CLOUDFLARE_AUTH_KEY, and this is so for a     *)
(* path and for a buffer.                                                  *)
(***************************************************************************)
C4_NoProviderConfigured ==
  \A c \in Calls :
    (InCall(c) /\ NoOverride /\ ~LocalConfigured /\ ~RemoteConfigured)
      => /\ Settled(c)
         /\ call[c].audio.kind \in {"path", "buffer"}
         /\ call[c].result.kind = "No STT provider configured"
         /\ {"WHISPER_CPP_MODEL_PATH", "CLOUDFLARE_ACCOUNT_ID", "CLOUDFLARE_AUTH_KEY"}
              \subseteq call[c].result.mentions

\* A buffer call rejected because nothing is configured.
C4_Witness ==
  \E c \in Calls :
    /\ Settled(c) /\ NoOverride /\ ~LocalConfigured /\ ~RemoteConfigured
    /\ env.WHISPER_CPP_MODEL_PATH = UNDEFINED
    /\ call[c].audio.kind = "buffer"
    /\ call[c].result.kind = "No STT provider configured"

(***************************************************************************)
(* C5.  With no override the providers are tried in the order whisper.cpp *)
(* then cloudflare and the first configured one is selected.  When the    *)
(* model path is set, its file is missing and the Cloudflare credentials  *)
(* are present, Cloudflare serves the call: only its adapter is invoked,  *)
(* one request is sent once the audio file is found, and a successful     *)
(* response's text is returned, normalized.                                *)
(***************************************************************************)
C5_AutoSelectionOrder ==
  \A c \in Calls :
    (InCall(c) /\ NoOverride) =>
      /\ LocalConfigured => call[c].provider = "whisper.cpp"
      /\ (~LocalConfigured /\ RemoteConfigured) => call[c].provider = "cloudflare"
      /\ (LocalPathSetFileMissing /\ RemoteConfigured)
           => /\ call[c].provider = "cloudflare"
              /\ call[c].adapters = <<"cloudflare">>
              /\ NoLocalWork(c)
              /\ (call[c].audio.kind = "buffer" \/ call[c].audio.path \in fs)
                   => call[c].eff.fetched = 1
              /\ (Settled(c) /\ call[c].response.ok /\ call[c].response.isJson
                    /\ call[c].response.data.success
                    /\ call[c].response.data.result.has
                    /\ call[c].response.data.result.text # << >>)
                   => call[c].result
                        = Ok(cleanTranscription(call[c].response.data.result.text))

\* The model path is set, the file is missing, and Cloudflare has answered a
\* path call with a text, which the call returned.
C5_Witness ==
  \E c \in Calls :
    /\ Settled(c) /\ NoOverride /\ LocalPathSetFileMissing /\ RemoteConfigured
    /\ call[c].audio.kind = "path"
    /\ call[c].eff.fetched = 1
    /\ call[c].response.data.result.text = <<32, 72, 105, 10>>
    /\ call[c].result = Ok(<<72, 105>>)

C7_AudioNotFoundFirst ==
  \A c \in Calls :
    (InCall(c) /\ call[c].audio.kind = "path" /\ call[c].audio.path \notin fs
       /\ call[c].provider # "none")
      => /\ call[c].pc \in {"adapter_done", "settled"}
         /\ AdapterOutcome(c).kind = "Audio file not found"
         /\ call[c].audio.path \in AdapterOutcome(c).mentions
         /\ NoLocalWork(c) /\ NoRemoteWork(c)
         /\ call[c].whisper = 0

\* whisper.cpp was selected while an engine handle for another model path is
\* cached, and the call rejected without touching the handle.
C7_Witness ==
  \E c \in Calls :
    /\ Settled(c) /\ call[c].provider = "whisper.cpp"
    /\ call[c].audio.kind = "path" /\ call[c].audio.path \notin fs
    /\ whisperInstance # 0 /\ currentModelPath # env.WHISPER_CPP_MODEL_PATH
    /\ call[c].result.kind = "Audio file not found"
    /\ handles[whisperInstance].frees = 0

(***************************************************************************)
(* C8.  When a buffer call has settled, the temporary input file it wrote *)
(* no longer exists, whatever the outcome: a text, a provider error or a  *)
(* fault of a collaborator.                                                *)
(***************************************************************************)
C8_TempFileRemoved ==
  \A c \in Calls :
    (Settled(c) /\ call[c].audio.kind = "buffer")
      => /\ TempInputPath(c) \notin fs
         /\ call[c].tempPath \notin fs

\* A buffer call that wrote its temporary file and failed in the conversion.
C8_Witness ==
  \E c \in Calls :
    /\ Settled(c) /\ call[c].audio.kind = "buffer"
    /\ call[c].eff.written = 1
    /\ call[c].tempPath = TempInputPath(c)
    /\ call[c].result.kind = "ffmpeg failed"

(***************************************************************************)
(* C9.  In any call only the selected provider's adapter is invoked, once: *)
(* the engine is called at most once and only when whisper.cpp is         *)
(* selected, a request is sent at most once and only when cloudflare is   *)
(* selected, also when the selected provider fails and the other one is   *)
(* configured.                                                             *)
(***************************************************************************)
C9_OnlySelectedProviderOnce ==
  \A c \in Calls :
    /\ Len(call[c].adapters) <= 1
    /\ \A i \in 1..Len(call[c].adapters) : call[c].adapters[i] = call[c].provider
    /\ call[c].eff.engineCalls <= 1
    /\ call[c].eff.converted <= 1
    /\ call[c].eff.fetched <= 1
    /\ call[c].provider # "whisper.cpp" => NoLocalWork(c)
    /\ call[c].provider # "cloudflare" => NoRemoteWork(c)

\* The engine failed while Cloudflare was configured: the call rejected with
\* the engine's failure and no request was sent.
C9_Witness ==
  \E c \in Calls :
    /\ Settled(c) /\ call[c].provider = "whisper.cpp" /\ RemoteConfigured
    /\ call[c].result.kind = "engine failed"
    /\ call[c].eff.engineCalls = 1
    /\ call[c].eff.fetched = 0

(***************************************************************************)
(* C10.  The override is matched without regard to case: a call made with *)
(* PROVIDER set to an upper/lower-case variant of 'whisper.cpp' or of     *)
(* 'cloudflare' selects the provider, or rejects with the error, that the *)
(* lower-case name gives in the same environment.                          *)
(***************************************************************************)
C10_CaseInsensitive ==
  \A c \in Calls :
    \A name \in {WhisperCppName, CloudflareName} :
      (InCall(c) /\ OverrideNames(name))
        => LET lower == selectProvider([env EXCEPT !.PROVIDER = name],
                                       fs \ {TempInputPath(c)})
           IN  /\ call[c].provider = lower.provider
               /\ ~lower.ok => (Settled(c) /\ call[c].result = lower.error)
               /\ (lower.ok /\ name = WhisperCppName) => call[c].provider = "whisper.cpp"
               /\ (lower.ok /\ name = CloudflareName) => call[c].provider = "cloudflare"

\* PROVIDER is "ClOuDfLaRe", both providers are configured, Cloudflare serves.
C10_Witness ==
  \E c \in Calls :
    /\ InCall(c) /\ LocalConfigured /\ RemoteConfigured
    /\ env.PROVIDER = UpperAt(CloudflareName, {1, 3, 5, 7, 9})
    /\ env.PROVIDER # CloudflareName
    /\ call[c].provider = "cloudflare"
    /\ call[c].eff.fetched = 1

(***************************************************************************)
(* C11.  When the explicit override is set and names no known provider,   *)
(* a call rejects with 'Unknown provider', the message lists the valid    *)
(* names whisper.cpp and cloudflare, and no provider is invoked: no       *)
(* adapter, no engine work, no request, no temporary file, even when both *)
(* providers are configured.                                               *)
(***************************************************************************)
C11_UnknownProviderRejected ==
  \A c \in Calls :
    (InCall(c) /\ OverrideUnknown)
      => /\ Settled(c)
         /\ call[c].result.kind = "Unknown provider"
         /\ {"whisper.cpp", "cloudflare"} \subseteq call[c].result.mentions
         /\ call[c].provider = "none"
         /\ call[c].adapters = << >>
         /\ NoLocalWork(c) /\ NoRemoteWork(c)
         /\ call[c].eff.written = 0

\* PROVIDER is "unknown" while both providers are configured: the buffer call
\* rejected.
C11_Witness ==
  \E c \in Calls :
    /\ Settled(c) /\ OverrideUnknown /\ LocalConfigured /\ RemoteConfigured
    /\ call[c].audio.kind = "buffer"
    /\ call[c].result.kind = "Unknown provider"
    /\ call[c].result.value = UnknownName

(***************************************************************************)
(* C13.  Every text a successful call returns, from either provider, has  *)
(* no ASCII control character (0x00-0x1F, 0x7F) and neither starts nor    *)
(* ends with white space, and so has cleanTranscription(x) for every      *)
(* string x; the normalizer fails on no string: a call whose provider     *)
(* answered with a text returns a text.                                    *)
(***************************************************************************)
C13_ReturnedTextNormalized ==
  /\ \A c \in Calls :
       /\ (InCall(c) /\ AdapterOutcome(c).kind = "ok") => IsNormalized(AdapterOutcome(c).value)
       /\ (Settled(c) /\ call[c].answers # << >>
              /\ call[c].answers[Len(call[c].answers)] = "result resolved")
            => call[c].result.kind = "ok"
       /\ (Settled(c) /\ call[c].response.isJson /\ call[c].response.data.success
              /\ call[c].response.data.result.has
              /\ call[c].response.data.result.text # << >>)
            => call[c].result.kind = "ok"
  /\ probe.n >= 1 => IsNormalized(probe.once)

\* Cloudflare answered DEL, space, 'H', and the call returned "H".
C13_Witness ==
  \E c \in Calls :
    /\ Settled(c) /\ call[c].provider = "cloudflare"
    /\ call[c].response.data.result.text = <<127, 32, 72>>
    /\ call[c].result = Ok(<<72>>)
    /\ probe.n >= 1 /\ probe.once = <<72>>

(***************************************************************************)
(* C17.  Normalization is idempotent: cleanTranscription applied to       *)
(* cleanTranscription(x) gives cleanTranscription(x), for every string x. *)
(***************************************************************************)
C17_NormalizeIdempotent ==
  probe.n = 2 => probe.twice = probe.once

\* x is NUL, space, 'H': both applications give "H".
C17_Witness ==
  /\ probe.n = 2
  /\ probe.x = <<0, 32, 72>>
  /\ probe.once = <<72>>
  /\ probe.twice = <<72>>

(***************************************************************************)
(* C14.  When the remote API answers with a non-success status, the call  *)
(* rejects; once the body text is read, the error is 'Cloudflare API      *)
(* error' and its message embeds the status code, the status text and the *)
(* body text (401, Unauthorized and the body for a 401 response).         *)
(***************************************************************************)
C14_ApiErrorEmbedsStatus ==
  \A c \in Calls :
    (InCall(c) /\ call[c].response # NoResponse /\ ~call[c].response.ok)
      => /\ call[c].pc \in {"cf_text", "adapter_done", "settled"}
         /\ AdapterOutcome(c).kind # "ok"
         /\ LastAnswer(c) = "text resolved"
              => /\ AdapterOutcome(c).kind = "Cloudflare API error"
                 /\ {call[c].response.status, call[c].response.statusText,
                     call[c].response.body} \subseteq AdapterOutcome(c).mentions

\* A 401 Unauthorized response with the body "denied" has rejected the call.
C14_Witness ==
  \E c \in Calls :
    /\ Settled(c)
    /\ call[c].response.status = "401"
    /\ call[c].result.kind = "Cloudflare API error"
    /\ {"401", "Unauthorized", "denied"} \subseteq call[c].result.mentions

(***************************************************************************)
(* C15, as stated.  When the remote API answers with a success status and *)
(* a body that has success=false or lacks a result text, the call rejects *)
(* with 'Cloudflare transcription failed: ' followed by the first         *)
(* reported error's message, or by the generic message when the body      *)
(* reports no error.                                                       *)
(***************************************************************************)
C15_AsStated ==
  \A c \in Calls :
    (Settled(c) /\ RemoteUnsuccessful(c))
      => /\ call[c].result.kind = "Cloudflare transcription failed"
         /\ call[c].result.mentions
              = {IF call[c].response.data.errors # << >>
                 THEN call[c].response.data.errors[1]
                 ELSE "Unknown Cloudflare API error"}

(***************************************************************************)
(* C15, amended.  In that case the call rejects with 'Cloudflare          *)
(* transcription failed: ' followed by the first reported error's message *)
(* when that message is not empty, and by 'Unknown Cloudflare API error'  *)
(* when the body reports no error or the first error's message is empty.  *)
(***************************************************************************)
C15_FirstMessageOrFallback ==
  \A c \in Calls :
    (Settled(c) /\ RemoteUnsuccessful(c))
      => /\ call[c].result.kind = "Cloudflare transcription failed"
         /\ call[c].result.mentions
              = {IF call[c].response.data.errors # << >>
                      /\ call[c].response.data.errors[1] \notin {"", UNDEFINED}
                 THEN call[c].response.data.errors[1]
                 ELSE "Unknown Cloudflare API error"}

\* success=false with the errors "Invalid audio format" and "second".
C15_Witness ==
  \E c \in Calls :
    /\ Settled(c) /\ RemoteUnsuccessful(c)
    /\ Len(call[c].response.data.errors) = 2
    /\ call[c].result.kind = "Cloudflare transcription failed"
    /\ call[c].result.mentions = {"Invalid audio format"}

(***************************************************************************)
(* C16.  The text the local adapter returns is the engine's segment texts *)
(* in the order returned, with one space between consecutive segments,    *)
(* normalized: 'Hello,' and 'world!' give 'Hello, world!'.                *)
(***************************************************************************)
C16_SegmentsJoinedInOrder ==
  \A c \in Calls :
    (InCall(c) /\ LastAnswer(c) = "result resolved")
      => LET texts == [i \in 1..Len(call[c].results) |-> call[c].results[i].text]
         IN  /\ AdapterOutcome(c)
                  = Ok(cleanTranscription(ConcatWithSpaces(texts, Len(texts))))
             /\ texts = <<<<72, 101, 108, 108, 111, 44>>, <<119, 111, 114, 108, 100, 33>>>>
                  => AdapterOutcome(c).value
                       = <<72, 101, 108, 108, 111, 44, 32, 119, 111, 114, 108, 100, 33>>

\* The engine returned 'Hello,' and 'world!' and the call returned 'Hello, world!'.
C16_Witness ==
  \E c \in Calls :
    /\ Settled(c) /\ call[c].provider = "whisper.cpp"
    /\ Len(call[c].results) = 2
    /\ call[c].results[1].text = <<72, 101, 108, 108, 111, 44>>
    /\ call[c].result
         = Ok(<<72, 101, 108, 108, 111, 44, 32, 119, 111, 114, 108, 100, 33>>)

(***************************************************************************)
(* C18.  When WHISPER_CPP_MODEL_PATH is set to a path whose file does not *)
(* exist and the audio exists, a call rejects with 'Whisper model not     *)
(* found at path: <path>'.                                                 *)
(***************************************************************************)
C18_ModelNotFound ==
  \A c \in Calls :
    (InCall(c) /\ LocalPathSetFileMissing /\ AudioExists(c))
      => /\ call[c].pc \in {"adapter_done", "settled"}
         /\ AdapterOutcome(c).kind = "Whisper model not found at path"
         /\ env.WHISPER_CPP_MODEL_PATH \in AdapterOutcome(c).mentions

(***************************************************************************)
(* C12.  A buffer call is equivalent to a path call on an existing file   *)
(* that holds the buffer's bytes: in the same environment, from the same  *)
(* module state, with the same options and the collaborators answering    *)
(* alike, it selects the same provider, invokes the same adapter, hands   *)
(* the collaborator the same audio bytes and options, asks the            *)
(* collaborators the same questions and settles with the same text or the *)
(* same failure.                                                           *)
(***************************************************************************)
C12_BufferAsPath ==
  \A c \in Calls :
    (ref.phase = "buffer" /\ InCall(c))
      => /\ call[c].provider = ref.run.provider
         /\ IsPrefix(call[c].adapters, ref.run.adapters)
         /\ call[c].request \in {NoRequest, ref.run.request}
         /\ AnswersAt(call[c].pc) # {}
              => /\ Len(call[c].answers) < Len(ref.run.answers)
                 /\ ref.run.answers[Len(call[c].answers) + 1] \in AnswersAt(call[c].pc)
         /\ Settled(c)
              => /\ call[c].adapters = ref.run.adapters
                 /\ call[c].request = ref.run.request
                 /\ call[c].answers = ref.run.answers
                 /\ call[c].result = ref.run.result
                 /\ [call[c].eff EXCEPT !.written = 0] = ref.run.eff

\* Cloudflare served the path call and the buffer call of the bytes "Og" with
\* language "en" and translate, and both returned the same text.
C12_Witness ==
  \E c \in Calls :
    /\ ref.phase = "buffer" /\ Settled(c)
    /\ call[c].audio = BufferAudio(<<79, 103>>)
    /\ call[c].eff.written = 1
    /\ call[c].provider = "cloudflare"
    /\ call[c].request.audio = <<84, 50, 99, 61>>
    /\ call[c].request.language = "en"
    /\ call[c].request.task = "translate"
    /\ ref.run.audio.kind = "path"
    /\ call[c].result.kind = "ok"
    /\ call[c].result = ref.run.result

(***************************************************************************)
(* C19.  After any interleaving of transcribe calls, model-path changes   *)
(* and shutdown signals, at most one engine handle that was constructed   *)
(* and not freed exists in the process.                                    *)
(***************************************************************************)
C19_AtMostOneLiveHandle ==
  Cardinality(LiveHandles) <= 1

(***************************************************************************)
(* C20.  When transcribe calls overlap and use different model paths (no  *)
(* shutdown signal is involved), no call is returned an engine handle on  *)
(* which free() has been called, and no call invokes transcribe on such a *)
(* handle.                                                                 *)
(***************************************************************************)
C20_NoFreedHandleUsed ==
  [][(\A sig \in Signals : proc.shutdown[sig] = "idle")
       => \A c \in Calls :
            /\ (call[c].pc # "w_got" /\ call'[c].pc = "w_got")
                 => handles'[call'[c].whisper].frees = 0
            /\ (call[c].pc = "w_got" /\ call'[c].pc = "w_task")
                 => handles[call[c].whisper].frees = 0]_vars

(***************************************************************************)
(* C30.  When the remote API answers with a success status and a body     *)
(* that has success=true, the empty string as result text and no errors,  *)
(* the call rejects with 'Cloudflare transcription failed: Unknown        *)
(* Cloudflare API error'; it does not return the empty text.              *)
(***************************************************************************)
C30_EmptyTextIsFailure ==
  \A c \in Calls :
    (InCall(c) /\ call[c].response.ok /\ call[c].response.isJson
       /\ call[c].response.data.success
       /\ call[c].response.data.result.has
       /\ call[c].response.data.result.text = << >>
       /\ call[c].response.data.errors = << >>)
      => /\ AdapterOutcome(c).kind # "ok"
         /\ call[c].pc \in {"adapter_done", "settled"}
              => AdapterOutcome(c)
                   = ErrCloudflareFailed("Unknown Cloudflare API error")

\* Cloudflare answered 200 with success=true and the text '', and the buffer
\* call rejected.
C30_Witness ==
  \E c \in Calls :
    /\ Settled(c) /\ call[c].provider = "cloudflare"
    /\ call[c].audio.kind = "buffer"
    /\ call[c].response.status = "200"
    /\ call[c].response.data.success
    /\ call[c].response.data.result.has
    /\ call[c].response.data.result.text = << >>
    /\ call[c].result.kind = "Cloudflare transcription failed"
    /\ call[c].result.mentions = {"Unknown Cloudflare API error"}

(***************************************************************************)
(* C24.  The local adapter invokes the engine with only the options that  *)
(* were supplied: language is passed iff options.language is not          *)
(* undefined and translate iff options.translate is not undefined, with   *)
(* the value given (translate=false and the empty language are passed),   *)
(* and format is always 'simple'.                                          *)
(***************************************************************************)
C24_OnlySuppliedOptions ==
  \A c \in Calls :
    (InCall(c) /\ call[c].eff.engineCalls > 0)
      => /\ call[c].request.to = "engine"
         /\ call[c].request.format = "simple"
         /\ (call[c].request.language = ABSENT) <=> (call[c].options.language = UNDEFINED)
         /\ call[c].options.language # UNDEFINED
              => call[c].request.language = call[c].options.language
         /\ (call[c].request.translate = ABSENT) <=> (call[c].options.translate = UNDEFINED)
         /\ call[c].options.translate # UNDEFINED
              => call[c].request.translate = call[c].options.translate

\* The engine was invoked with language '' and translate=false, as given.
C24_Witness ==
  \E c \in Calls :
    /\ InCall(c) /\ call[c].eff.engineCalls = 1
    /\ call[c].options = [language |-> "", translate |-> "false"]
    /\ call[c].request.language = ""
    /\ call[c].request.translate = "false"
    /\ call[c].request.format = "simple"

(***************************************************************************)
(* C25.  The request of the remote adapter has task 'translate' iff       *)
(* options.translate is true and 'transcribe' otherwise, vad_filter true, *)
(* a language only if one was supplied (then that language), and the      *)
(* audio's bytes encoded in base64; it is one POST with the configured    *)
(* key as bearer token to the endpoint of the configured account.         *)
(***************************************************************************)
C25_RemoteRequestBody ==
  \A c \in Calls :
    (InCall(c) /\ call[c].eff.fetched > 0)
      => /\ call[c].eff.fetched = 1
         /\ call[c].request.to = "cloudflare"
         /\ call[c].request.method = "POST"
         /\ call[c].request.account = env.CLOUDFLARE_ACCOUNT_ID
         /\ call[c].request.bearer = env.CLOUDFLARE_AUTH_KEY
         /\ (call[c].request.task = "translate") <=> (call[c].options.translate = "true")
         /\ (call[c].request.task = "transcribe") <=> (call[c].options.translate # "true")
         /\ call[c].request.vad_filter = "true"
         /\ call[c].request.language # ABSENT
              => /\ call[c].options.language # UNDEFINED
                 /\ call[c].request.language = call[c].options.language
         /\ call[c].request.encoding = "base64"
         /\ (call[c].pc = "cf_fetch" /\ GivenBytes(c) = <<82, 73, 70>>)
              => call[c].request.audio = <<85, 107, 108, 71>>
         /\ (call[c].pc = "cf_fetch" /\ GivenBytes(c) = <<79, 103>>)
              => call[c].request.audio = <<84, 50, 99, 61>>

\* A request for the path call with translate=false and no language: task
\* 'transcribe', no language, the file's bytes "RIF" as "UklG".
C25_Witness ==
  \E c \in Calls :
    /\ call[c].pc = "cf_fetch" /\ call[c].audio.kind = "path"
    /\ call[c].options = [language |-> "", translate |-> "false"]
    /\ call[c].request.task = "transcribe"
    /\ call[c].request.language = ABSENT
    /\ call[c].request.audio = <<85, 107, 108, 71>>
    /\ call[c].request.account = "acct"
    /\ call[c].request.bearer = "key"

(***************************************************************************)
(* C26.  A call that fails in provider selection changes nothing: it      *)
(* settles at once with the selection's error (never with 'Audio file not *)
(* found', also when the audio file is missing), writes no temporary      *)
(* file, invokes no adapter, constructs and frees no engine handle, runs  *)
(* no conversion and sends no request; the files, the cached handle and   *)
(* its model path are as before the call.                                  *)
(***************************************************************************)
C26_SelectionFailureChangesNothing ==
  [][\A c \in Calls :
       (call[c].pc = "idle" /\ call'[c].pc # "idle" /\ call'[c].provider = "none")
         => /\ call'[c].pc = "settled"
            /\ call'[c].result.kind \in {"No STT provider configured",
                                         "PROVIDER is set but provider is not configured",
                                         "Unknown provider"}
            /\ call'[c].eff = NoEffects
            /\ call'[c].adapters = << >>
            /\ call'[c].tempPath = ""
            /\ call'[c].request = NoRequest
            /\ fs' = fs /\ contents' = contents
            /\ whisperInstance' = whisperInstance
            /\ currentModelPath' = currentModelPath
            /\ handles' = handles]_vars

\* A buffer call rejected in selection while an engine handle is cached: no
\* temporary file, the handle not freed.
C26_Witness ==
  \E c \in Calls :
    /\ Settled(c) /\ call[c].provider = "none"
    /\ call[c].audio.kind = "buffer"
    /\ call[c].result.kind = "PROVIDER is set but provider is not configured"
    /\ TempInputPath(c) \notin fs
    /\ AudioPath \notin fs
    /\ whisperInstance # 0 /\ handles[whisperInstance].frees = 0

(***************************************************************************)
(* C23.  The provider a call selects is a function of the environment and *)
(* the files at the call only: whisper.cpp counts as configured iff       *)
(* WHISPER_CPP_MODEL_PATH is set, not empty, and its file exists then,    *)
(* cloudflare iff CLOUDFLARE_ACCOUNT_ID and CLOUDFLARE_AUTH_KEY are set   *)
(* and not empty; earlier calls and the cached engine handle have no part *)
(* in it.                                                                  *)
(***************************************************************************)
C23_SelectionFromEnvironmentOnly ==
  \A c \in Calls : InCall(c) => call[c].provider = ProviderFor

\* An engine handle for m1.bin is cached from an earlier call, the file m1.bin
\* is gone and the model path still names it: the call is served by Cloudflare.
C23_Witness ==
  \E c \in Calls :
    /\ InCall(c) /\ NoOverride
    /\ whisperInstance # 0 /\ currentModelPath = "m1.bin"
    /\ handles[whisperInstance].frees = 0
    /\ env.WHISPER_CPP_MODEL_PATH = "m1.bin" /\ "m1.bin" \notin fs
    /\ RemoteConfigured
    /\ call[c].provider = "cloudflare"
    /\ call[c].eff.fetched = 1

(***************************************************************************)
(* C22.  When the calls of the local provider follow one another, an      *)
(* engine handle is constructed only in a call that started with no       *)
(* handle cached or with WHISPER_CPP_MODEL_PATH different from the path   *)
(* of the cached handle; a call that starts with a cached handle of its   *)
(* model path is given that handle, which is neither freed nor built      *)
(* again.                                                                  *)
(***************************************************************************)
C22_HandleReused ==
  [][\A c \in Calls :
       /\ (call[c].pc = "idle" /\ call'[c].pc \in {"w_free", "w_import"})
            => (whisperInstance = 0 \/ currentModelPath # env.WHISPER_CPP_MODEL_PATH)
       /\ call'[c].pc = "w_free" => call[c].pc \in {"idle", "w_free"}
       /\ call'[c].pc = "w_import" => call[c].pc \in {"idle", "w_free", "w_import"}
       /\ call'[c].eff.constructed # call[c].eff.constructed
            => (call[c].pc = "w_import" \/ call'[c].pc = "idle")
       /\ call'[c].eff.freed # call[c].eff.freed
            => (call'[c].pc \in {"w_free", "idle"} /\ call[c].pc \in {"idle", "settled"})
       /\ (call[c].pc = "idle" /\ call'[c].pc # "idle"
              /\ call'[c].provider = "whisper.cpp"
              /\ call'[c].audioPath \in fs'
              /\ whisperInstance # 0
              /\ currentModelPath = env.WHISPER_CPP_MODEL_PATH)
            => /\ call'[c].pc = "w_got"
               /\ call'[c].whisper = whisperInstance
               /\ whisperInstance' = whisperInstance
               /\ currentModelPath' = currentModelPath
               /\ handles' = handles
               /\ call'[c].eff.constructed = 0 /\ call'[c].eff.freed = 0]_vars

\* A call served by the handle an earlier call had built: it returned a text
\* and constructed and freed nothing.
C22_Witness ==
  \E c \in Calls :
    /\ Settled(c) /\ call[c].provider = "whisper.cpp"
    /\ call[c].result.kind = "ok"
    /\ call[c].eff.engineCalls = 1
    /\ call[c].eff.constructed = 0 /\ call[c].eff.freed = 0
    /\ whisperInstance # 0 /\ currentModelPath = call[c].modelPath
    /\ handles[whisperInstance] = [path |-> call[c].modelPath, frees |-> 0]

(***************************************************************************)
(* C29.  The temporary PCM file of the conversion does not exist once     *)
(* audioToPcm has returned or thrown: after a conversion and read that    *)
(* succeeded, after ffmpeg failed leaving a partial file, and after the   *)
(* read failed.                                                            *)
(***************************************************************************)
C29_PcmFileRemoved ==
  \A c \in Calls : TempPcmPath(c) \notin fs

\* ffmpeg failed and left a partial file; the call rejected and the file is gone.
C29_Witness ==
  \E c \in Calls :
    /\ Settled(c) /\ call[c].eff.converted = 1
    /\ LastAnswer(c) = "ffmpeg partial"
    /\ call[c].result.kind = "ffmpeg failed"
    /\ TempPcmPath(c) \notin fs

(***************************************************************************)
(* C21.  A shutdown handler invoked by SIGINT or SIGTERM while an engine  *)
(* handle is cached calls free() on that handle and does not exit yet;    *)
(* when free() has completed it clears the cached handle and its model    *)
(* path, and only then calls process.exit(0).  Invoked with no cached     *)
(* handle, it calls free() on nothing and goes on to process.exit(0).     *)
(* process.exit(0) is called by no handler that has not done this.        *)
(***************************************************************************)
C21_ReleaseBeforeExit ==
  [][\A sig \in Signals :
       /\ (proc.shutdown[sig] = "idle" /\ proc'.shutdown[sig] # "idle" /\ ~proc'.exited)
            => IF whisperInstance # 0
               THEN /\ proc'.shutdown[sig] = "freeing"
                    /\ handles'[whisperInstance].frees = handles[whisperInstance].frees + 1
               ELSE /\ proc'.shutdown[sig] = "exiting"
                    /\ handles' = handles
       /\ (proc.shutdown[sig] = "freeing" /\ proc'.shutdown[sig] = "exiting")
            => /\ whisperInstance' = 0
               /\ currentModelPath' = UNDEFINED
       /\ (proc.shutdown[sig] # "exiting" /\ proc'.shutdown[sig] = "exiting")
            => /\ proc.shutdown[sig] \in {"idle", "freeing"}
               /\ whisperInstance' = 0
       /\ (proc.shutdown[sig] = "freeing" /\ proc'.exited)
            => \E other \in Signals \ {sig} : proc.shutdown[other] \in {"exiting", "rejected"}
       /\ (~proc.exited /\ proc'.exited)
            => \E by \in Signals : proc.shutdown[by] \in {"exiting", "rejected"}]_vars

\* SIGINT arrived while a call was using the cached handle: free() was called
\* on the handle, the cache is cleared, the handler is about to exit.
C21_Witness ==
  \E c \in Calls :
    /\ proc.shutdown["SIGINT"] = "exiting"
    /\ proc.shutdown["SIGTERM"] = "idle"
    /\ call[c].pc = "w_task" /\ call[c].whisper # 0
    /\ handles[call[c].whisper].frees = 1
    /\ whisperInstance = 0 /\ currentModelPath = UNDEFINED

(***************************************************************************)
(* C27.  free() is called at most once on every engine handle, whatever   *)
(* the interleaving of handle rebuilds, shutdown handlers for SIGINT and  *)
(* SIGTERM and transcribe calls in flight.                                 *)
(***************************************************************************)
C27_FreedAtMostOnce ==
  \A h \in DOMAIN handles : handles[h].frees <= 1

(***************************************************************************)
(* C28.  Nothing runs between a call's provider selection and the local   *)
(* adapter's read of WHISPER_CPP_MODEL_PATH.  So, with the environment    *)
(* and the model file changing and other calls running at the await       *)
(* points only: a call that selected whisper.cpp and found its audio goes *)
(* on to obtain a handle for the model path the selection found set with  *)
(* its file present; the model path of a call does not change; whenever a *)
(* call holds an engine handle, the handle was built from that path; and  *)
(* no such call fails with 'WHISPER_CPP_MODEL_PATH environment variable   *)
(* is not set' or 'Whisper model not found at path'.                       *)
(***************************************************************************)
C28_ModelPathOfSelection ==
  [][\A c \in Calls :
       /\ (call[c].pc = "idle" /\ call'[c].pc # "idle"
              /\ call'[c].provider = "whisper.cpp" /\ call'[c].audioPath \in fs')
            => /\ call'[c].pc \in {"w_got", "w_free", "w_import"}
               /\ call'[c].modelPath = env.WHISPER_CPP_MODEL_PATH
               /\ call'[c].modelPath \notin {UNDEFINED, ""}
               /\ call'[c].modelPath \in fs
       /\ (call[c].pc # "idle" /\ call'[c].pc # "idle")
            => call'[c].modelPath = call[c].modelPath
       /\ call'[c].whisper # 0
            => handles'[call'[c].whisper].path = call'[c].modelPath
       /\ call'[c].provider = "whisper.cpp"
            => /\ call'[c].ret.kind
                    \notin {"WHISPER_CPP_MODEL_PATH environment variable is not set",
                            "Whisper model not found at path"}
               /\ call'[c].result.kind
                    \notin {"WHISPER_CPP_MODEL_PATH environment variable is not set",
                            "Whisper model not found at path"}]_vars

\* A call built its handle for m1.bin while the other call was in flight and
\* the host had unset the model path and deleted m1.bin during the awaits.
C28_Witness ==
  \E c \in Calls : \E d \in Calls \ {c} :
    /\ call[c].pc = "w_got" /\ call[c].eff.constructed = 1
    /\ call[c].modelPath = "m1.bin"
    /\ handles[call[c].whisper].path = "m1.bin"
    /\ env.WHISPER_CPP_MODEL_PATH = UNDEFINED
    /\ "m1.bin" \notin fs
    /\ call[d].pc = "w_task" /\ call[d].modelPath = "m2.bin"

====
